---- MODULE Spec2Model ----
(***************************************************************************)
(* Street View 360 calibration front end: the navigation orchestrator      *)
(* (navigator.js), the calibration state store (state.js), the projector,  *)
(* the hit tester and the renderer's state setters.                        *)
(*                                                                         *)
(* Numbers.  The JavaScript works on doubles; the model works on integers  *)
(* in fixed units:                                                         *)
(*   angles        whole degrees (the viewer keeps lon/lat/fov in degrees  *)
(*                 and converts to radians only for the callback payload)  *)
(*   sin/cos/tan   thousandths                                             *)
(*   lengths       centimetres                                             *)
(*   lon/lat       millionths of a degree                                  *)
(*   ndc, flatten  thousandths                                             *)
(*   screen        pixels                                                  *)
(*   scales        hundredths (distance_scale, marker_scale)               *)
(* null is NULL where an id is expected, NullNum where a number is, and    *)
(* NullObj where an object is.                                             *)
(***************************************************************************)
EXTENDS Integers, Sequences, FiniteSets, TLC

\* null, for an id (a string)
NULL == "null"

\* null, for an object
NullObj == [null |-> TRUE]

(***************************************************************************)
(* Arithmetic helpers: the Math functions the code calls                   *)
(***************************************************************************)
Abs(a) == IF a < 0 THEN -a ELSE a
Max(a, b) == IF a >= b THEN a ELSE b
Min(a, b) == IF a <= b THEN a ELSE b

\* a / b rounded to the nearest integer; callers branch on b = 0 themselves
RDiv(a, b) ==
    LET s == IF b < 0 THEN -1 ELSE 1
        n == a * s
        d == b * s
    IN  IF d = 0 THEN 0 ELSE (2 * n + d) \div (2 * d)

RECURSIVE SqrtIter(_, _, _)
SqrtIter(n, lo, hi) ==
    IF lo >= hi THEN lo
    ELSE LET mid == (lo + hi + 1) \div 2
         IN  IF mid * mid <= n THEN SqrtIter(n, mid, hi) ELSE SqrtIter(n, lo, mid - 1)

\* Math.sqrt on a non-negative integer (floor)
Sqrt(n) == SqrtIter(n, 0, 46340)

\* Math.sqrt(a*a + b*b); large operands are scaled as a double's exponent would
RECURSIVE Hypot(_, _)
Hypot(a, b) ==
    IF Max(Abs(a), Abs(b)) > 30000
    THEN 10 * Hypot(RDiv(a, 10), RDiv(b, 10))
    ELSE Sqrt(a * a + b * b)

\* Math.sqrt(a*a + b*b + c*c)
RECURSIVE Hypot3(_, _, _)
Hypot3(a, b, c) ==
    IF Max(Abs(a), Max(Abs(b), Abs(c))) > 25000
    THEN 10 * Hypot3(RDiv(a, 10), RDiv(b, 10), RDiv(c, 10))
    ELSE Sqrt(a * a + b * b + c * c)

SinTab ==
    <<0, 17, 35, 52, 70, 87, 105, 122, 139, 156, 174, 191, 208, 225, 242, 259,
      276, 292, 309, 326, 342, 358, 375, 391, 407, 423, 438, 454, 469, 485, 500,
      515, 530, 545, 559, 574, 588, 602, 616, 629, 643, 656, 669, 682, 695, 707,
      719, 731, 743, 755, 766, 777, 788, 799, 809, 819, 829, 839, 848, 857, 866,
      875, 883, 891, 899, 906, 914, 921, 927, 934, 940, 946, 951, 956, 961, 966,
      970, 974, 978, 982, 985, 988, 990, 993, 995, 996, 998, 999, 999, 1000, 1000>>

\* Math.sin of d degrees, in thousandths
Sin(d) ==
    LET r == d % 360
    IN  IF r <= 90 THEN SinTab[r + 1]
        ELSE IF r <= 180 THEN SinTab[180 - r + 1]
        ELSE IF r <= 270 THEN -SinTab[r - 180 + 1]
        ELSE -SinTab[360 - r + 1]

\* Math.cos of d degrees, in thousandths
Cos(d) == Sin(d + 90)

TanHalfTab ==
    <<87, 96, 105, 114, 123, 132, 141, 149, 158, 167, 176, 185, 194, 203, 213,
      222, 231, 240, 249, 259, 268, 277, 287, 296, 306, 315, 325, 335, 344, 354,
      364, 374, 384, 394, 404, 414, 424, 435, 445, 456, 466, 477, 488, 499, 510,
      521, 532, 543, 554, 566, 577, 589, 601, 613, 625, 637, 649, 662, 675, 687,
      700, 713, 727, 740, 754, 767>>

\* Math.tan(fovRad / 2) for fov in 10..75 degrees (the viewer's zoom range), in thousandths
TanHalfFov(fov) == TanHalfTab[fov - 9]

RECURSIVE ScaleDown(_, _)
ScaleDown(a, b) ==
    IF Max(Abs(a), Abs(b)) > 1000000
    THEN ScaleDown(RDiv(a, 10), RDiv(b, 10))
    ELSE <<a, b>>

\* floor of atan(y / x) in degrees, for x > 0 and y >= 0
AtanFloor(y, x) ==
    CHOOSE d \in 0..89 :
        /\ Sin(d) * x <= Cos(d) * y
        /\ \A e \in (d + 1)..89 : Sin(e) * x > Cos(e) * y

\* ceiling of atan(y / x) in degrees, for x > 0 and y >= 0
AtanCeil(y, x) ==
    CHOOSE d \in 0..90 :
        /\ Sin(d) * x >= Cos(d) * y
        /\ \A e \in 0..(d - 1) : Sin(e) * x < Cos(e) * y

\* the angle of (x, y) in [0, 180] rounded down / up, for y >= 0
UpperFloor(y, x) ==
    IF x > 0 THEN AtanFloor(y, x)
    ELSE IF x = 0 THEN (IF y = 0 THEN 0 ELSE 90)
    ELSE 180 - AtanCeil(y, -x)

UpperCeil(y, x) ==
    IF x > 0 THEN AtanCeil(y, x)
    ELSE IF x = 0 THEN (IF y = 0 THEN 0 ELSE 90)
    ELSE 180 - AtanFloor(y, -x)

\* Math.atan2(y, x) * 180 / Math.PI rounded down: a value in -180..180
Atan2Deg(y0, x0) ==
    LET p == ScaleDown(y0, x0)
        y == p[1]
        x == p[2]
    IN  IF y >= 0 THEN UpperFloor(y, x) ELSE -UpperCeil(-y, x)

(***************************************************************************)
(* constants.js                                                            *)
(***************************************************************************)
DEFAULT_CAMERA_HEIGHT == 250
MARKER_WORLD_RADIUS == 180
MARKER_MIN_SIZE == 8
MARKER_MAX_SIZE == 120
HIT_RADIUS_MULTIPLIER == 1
FOV_MARGIN == 5
HIDE_ARROWS_FOV == 35
SCALE_ARROWS_FOV == 45

\* a number field that holds null (override.bearing, cameraConfig.height, ...)
NullNum == 0 - 1000000000

\* a ?? b on a number
Coalesce(a, b) == IF a = NullNum THEN b ELSE a

(***************************************************************************)
(* projector.js: StreetViewProjector.  The canvas size is the container's  *)
(* client size at initNavigator; cfg is this.cameraConfig (NullObj or a    *)
(* camera record).                                                         *)
(***************************************************************************)
Canvas == [width |-> 800, height |-> 600]

\* this.cameraConfig?.height ?? NAV_CONSTANTS.DEFAULT_CAMERA_HEIGHT
ProjCameraHeight(cfg) ==
    IF cfg = NullObj THEN DEFAULT_CAMERA_HEIGHT ELSE Coalesce(cfg.height, DEFAULT_CAMERA_HEIGHT)

\* this.cameraConfig?.marker_scale ?? 1.0
ProjMarkerScale(cfg) ==
    IF cfg = NullObj THEN 100 ELSE Coalesce(cfg.marker_scale, 100)

lonLatToMeters(lon, lat, cameraLon, cameraLat) ==
    LET midLat == RDiv(cameraLat, 1000000)
        x == RDiv(RDiv((lon - cameraLon) * 111195, 10000) * Cos(midLat), 1000)
        z == -RDiv((lat - cameraLat) * 111195, 10000)
    IN  [x |-> x, z |-> z]

\* metersToScreen, from the perspective division on: denY is -finalZ * tanHalfFov
PerspectiveDivide(rotatedX, rotatedY, denY, distance, fov) ==
    LET denX == RDiv(denY * Canvas.width, Canvas.height)
        ndcX == RDiv(rotatedX * 1000, denX)
        ndcY == RDiv(rotatedY * 1000, denY)
        margin == RDiv(FOV_MARGIN * 1000, fov)
    IN  IF denX = 0 \/ denY = 0
           \* a division by zero gives an infinite coordinate, outside every margin
        THEN [screenX |-> 0, screenY |-> 0, distance |-> distance, visible |-> FALSE]
        ELSE IF Abs(ndcX) > 1000 + margin \/ Abs(ndcY) > 1000 + margin
        THEN [screenX |-> 0, screenY |-> 0, distance |-> distance, visible |-> FALSE]
        ELSE [screenX |-> RDiv((ndcX + 1000) * Canvas.width, 2000),
              screenY |-> RDiv((1000 - ndcY) * Canvas.height, 2000),
              distance |-> distance, visible |-> TRUE]

\* metersToScreen, from the behind-the-camera test on
PitchAndProject(rotatedX, y, rotatedZ, distance, pitch, fov) ==
    IF rotatedZ >= 0
    THEN [screenX |-> 0, screenY |-> 0, distance |-> 0, visible |-> FALSE]
    ELSE PerspectiveDivide(
             rotatedX,
             RDiv(y * Cos(-pitch) - rotatedZ * Sin(-pitch), 1000),
             RDiv(-RDiv(y * Sin(-pitch) + rotatedZ * Cos(-pitch), 1000) * TanHalfFov(fov), 1000),
             distance, fov)

metersToScreen(x, y, z, yaw, pitch, fov) ==
    PitchAndProject(RDiv(x * Cos(yaw) - z * Sin(yaw), 1000), y,
                    RDiv(x * Sin(yaw) + z * Cos(yaw), 1000),
                    Hypot3(x, y, z), pitch, fov)

\* NullObj, or the ground point [x, z] under the pixel
screenToGround(cfg, screenX, screenY, yaw, pitch, fov) ==
    LET cameraHeight == ProjCameraHeight(cfg)
        ndcX == RDiv(screenX * 2000, Canvas.width) - 1000
        ndcY == 1000 - RDiv(screenY * 2000, Canvas.height)
        tanHalfFov == TanHalfFov(fov)
        rayX0 == RDiv(RDiv(ndcX * tanHalfFov, 1000) * Canvas.width, Canvas.height)
        rayY0 == RDiv(ndcY * tanHalfFov, 1000)
        rayZ0 == -1000
        cosPitch == Cos(pitch)
        sinPitch == Sin(pitch)
        rayY == RDiv(rayY0 * cosPitch - rayZ0 * sinPitch, 1000)
        rayZ1 == RDiv(rayY0 * sinPitch + rayZ0 * cosPitch, 1000)
        cosYaw == Cos(yaw)
        sinYaw == Sin(yaw)
        rayX == RDiv(rayX0 * cosYaw + rayZ1 * sinYaw, 1000)
        rayZ == RDiv(-rayX0 * sinYaw + rayZ1 * cosYaw, 1000)
    IN  IF rayY >= 0 THEN NullObj
        ELSE IF cameraHeight < 0 THEN NullObj      \* t = -cameraHeight / rayY < 0
        ELSE [x |-> RDiv(rayX * cameraHeight, -rayY),
              z |-> RDiv(rayZ * cameraHeight, -rayY)]

calculateFlattenRatio(cfg, horizontalDistance, pitch) ==
    LET h == ProjCameraHeight(cfg)
        d == Max(10, horizontalDistance)
        root == Hypot(h, d)
        baseFlatten == RDiv(h * 1000, root)
        pitchFactor == Abs(Cos(pitch))
        flattenRatio == 1000 - RDiv(pitchFactor * (1000 - baseFlatten), 1000)
    IN  Max(150, Min(900, flattenRatio))

focalLength(fov) == RDiv(Canvas.height * 1000, 2 * TanHalfFov(fov))

calculateMarkerSize(cfg, worldRadius, horizontalDistance, fov) ==
    LET cameraHeight == ProjCameraHeight(cfg)
        markerScale == ProjMarkerScale(cfg)
        slant == Hypot(horizontalDistance, cameraHeight)
        d == Max(50, slant)
        f == focalLength(fov)
        size == RDiv(RDiv(worldRadius * markerScale, 100) * f, d)
    IN  Max(MARKER_MIN_SIZE, Min(MARKER_MAX_SIZE, size))

(***************************************************************************)
(* hit-tester.js: StreetViewHitTester                                      *)
(***************************************************************************)
isPointInMarker(screenX, screenY, marker) ==
    LET hitRadius == marker.radius * HIT_RADIUS_MULTIPLIER
        dx == screenX - marker.screenX
        dy == screenY - marker.screenY
        fy == IF marker.flattenY = 0 THEN 1000 ELSE marker.flattenY
        \* (dx/r)^2 + (dy/(r*fy))^2 <= 1, both sides multiplied by (r*fy)^2
        a == RDiv(dx * fy, 100)
        b == dy * 10
        c == RDiv(hitRadius * fy, 100)
    IN  IF hitRadius = 0 THEN FALSE        \* 0/0 is NaN and x/0 is infinite
        ELSE a * a + b * b <= c * c

\* insert m after every element whose distance is <= m.distance (the sort is stable)
RECURSIVE InsertByDistance(_, _)
InsertByDistance(sorted, m) ==
    IF sorted = <<>> THEN <<m>>
    ELSE IF sorted[Len(sorted)].distance <= m.distance THEN Append(sorted, m)
    ELSE Append(InsertByDistance(SubSeq(sorted, 1, Len(sorted) - 1), m), sorted[Len(sorted)])

RECURSIVE SortByDistance(_)
SortByDistance(ms) ==
    IF ms = <<>> THEN <<>>
    ELSE InsertByDistance(SortByDistance(SubSeq(ms, 1, Len(ms) - 1)), ms[Len(ms)])

\* a faulty setMarkers: the list is kept in the order given
HitSetMarkersUnsorted(ms) == ms

\* StreetViewHitTester.setMarkers: the new value of this.markers
HitSetMarkers(ms) == SortByDistance(ms)

\* StreetViewHitTester.testPoint on the marker list ms: the first marker hit, or NullObj
testPoint(ms, screenX, screenY) ==
    LET hits == {i \in 1..Len(ms) : isPointInMarker(screenX, screenY, ms[i])}
    IN  IF hits = {} THEN NullObj
        ELSE ms[CHOOSE i \in hits : \A j \in hits : i <= j]

(***************************************************************************)
(* The program's state                                                     *)
(*   state        state.js: the exported state object.  The two hidden     *)
(*                maps only ever hold the value true, so each is the set   *)
(*                of its keys; an override map is a function from its     *)
(*                keys to {bearing, distance, height}                      *)
(*   nav          navigator.js: the module's let-variables                 *)
(*   projector    navigator.js: projector (NullObj before initNavigator)   *)
(*   hitTester    navigator.js: hitTester                                  *)
(*   navRenderer  navigator.js: navRenderer, with the renderer's fields    *)
(*   last         the handler that ran last: its name, its arguments, the  *)
(*                mode it found and the callbacks it invoked               *)
(*   pending      how many handlers have run since the last animation      *)
(*                frame                                                    *)
(*   viewer       viewer.js: the camera orbit state lon, lat, fov          *)
(*   db           the server's index.db: the photos and targets tables     *)
(***************************************************************************)
VARIABLES state, nav, projector, hitTester, navRenderer, last, pending, viewer, db

vars == <<state, nav, projector, hitTester, navRenderer, last, pending, viewer, db>>

(***************************************************************************)
(* Inputs: the photos the API serves and the events the browser delivers   *)
(***************************************************************************)
NumTargets == 2
NumNearby == 1

\* the most handlers the browser runs between two animation frames
MaxPending == 2

TargetName == <<"t1", "t2", "t3", "t4">>
NearbyName == <<"n1", "n2", "n3">>

\* metadata.camera of the photo being calibrated
Camera ==
    [lon |-> -47900000, lat |-> -30000000, heading |-> 0, height |-> 250,
     distance_scale |-> 100, marker_scale |-> 100]

\* metadata.targets[k] as GET /photos/:uuid returns it; saved says whether the
\* server holds calibration edits (target 1 overridden, target 2 hidden)
Target(k, saved) ==
    [id |-> TargetName[k],
     lon |-> Camera.lon + 90 * (k - 1),
     lat |-> Camera.lat + 90 + 20 * (k - 1),
     override_bearing |-> IF saved /\ k = 1 THEN 357 ELSE NullNum,
     override_distance |-> IF saved /\ k = 1 THEN 997 ELSE NullNum,
     override_height |-> IF saved /\ k = 1 THEN 0 ELSE NullNum,
     hidden |-> saved /\ k = 2]

TargetList(n, saved) == [k \in 1..n |-> Target(k, saved)]

\* the photo metadata the API may answer with
Metadatas == {[camera |-> Camera, targets |-> TargetList(NumTargets, saved)] : saved \in BOOLEAN}

TargetIds == {TargetName[k] : k \in 1..NumTargets}

\* the targets the operator works on in the panel; the others are only displayed
EditIds == {TargetName[1]}

\* a nearby unconnected photo: 9 m north of the camera, in front of target 1
Nearby(k) ==
    [id |-> NearbyName[k],
     lon |-> Camera.lon + 30 * (k - 1),
     lat |-> Camera.lat + 81 + 10 * (k - 1)]

NearbyLists == {[k \in 1..n |-> Nearby(k)] : n \in {0, NumNearby}}

NearbyIds == {NearbyName[k] : k \in 1..NumNearby}

\* canvas-relative pointer positions: in the sky (the corner), and on the
\* ground 10 m ahead, where target 1 and the nearby photo are drawn
Points == {<<0, 0>>, <<380, 398>>}

\* the viewer's per-frame payload {yaw, pitch, fov} (in degrees)
CameraStates ==
    {[yaw |-> 0, pitch |-> 0, fov |-> 75],
     [yaw |-> 180, pitch |-> 0, fov |-> 30]}

\* the values the override editor's sliders send
PanelOverrides == {[bearing |-> 357, distance |-> 997, height |-> 0]}

(***************************************************************************)
(* Maps                                                                    *)
(***************************************************************************)
EmptyMap == [k \in {} |-> 0]
MapHas(m, k) == k \in DOMAIN m
MapSet(m, k, v) == [j \in (DOMAIN m) \cup {k} |-> IF j = k THEN v ELSE m[j]]
MapDelete(m, k) == [j \in (DOMAIN m) \ {k} |-> m[j]]

(***************************************************************************)
(* state.js                                                                *)
(***************************************************************************)
ClearedOverride == [bearing |-> NullNum, distance |-> NullNum, height |-> NullNum]

\* a faulty resolution: a cleared edit is handed back as if it were an override
EffectiveOverrideKeepsSentinel(original, edited, targetId) ==
    IF MapHas(edited, targetId) THEN edited[targetId]
    ELSE IF MapHas(original, targetId) THEN original[targetId]
    ELSE NullObj

\* getEffectiveOverride(targetId) on the two override maps: NullObj or an override
EffectiveOverride(original, edited, targetId) ==
    IF MapHas(edited, targetId)
    THEN IF edited[targetId].bearing = NullNum /\ edited[targetId].distance = NullNum
         THEN NullObj
         ELSE edited[targetId]
    ELSE IF MapHas(original, targetId)
    THEN original[targetId]
    ELSE NullObj

getEffectiveOverride(targetId) ==
    EffectiveOverride(state.originalTargetOverrides, state.editedTargetOverrides, targetId)

isTargetHidden(s, targetId) == targetId \in s.editedTargetHidden

\* loadPhoto(photoId, metadata): the overrides and hidden flags the metadata carries
MetadataOverrides(targetList) ==
    [id \in {targetList[k].id : k \in {j \in 1..Len(targetList) :
                                        targetList[j].override_bearing /= NullNum}} |->
        LET t == targetList[CHOOSE k \in 1..Len(targetList) : targetList[k].id = id]
        IN  [bearing |-> t.override_bearing,
             distance |-> Coalesce(t.override_distance, 500),
             height |-> Coalesce(t.override_height, 0)]]

MetadataHidden(targetList) ==
    {targetList[k].id : k \in {j \in 1..Len(targetList) : targetList[j].hidden}}

loadPhoto(s, targetList) ==
    [s EXCEPT !.originalTargetOverrides = MetadataOverrides(targetList),
              !.editedTargetOverrides = MetadataOverrides(targetList),
              !.originalTargetHidden = MetadataHidden(targetList),
              !.editedTargetHidden = MetadataHidden(targetList),
              !.selectedTargetId = NULL,
              !.setFromClickMode = FALSE]

setTargetOverride(s, targetId, bearing, distance, height) ==
    [s EXCEPT !.editedTargetOverrides =
        MapSet(@, targetId, [bearing |-> bearing, distance |-> distance, height |-> height])]

setTargetHidden(s, targetId, hidden) ==
    [s EXCEPT !.editedTargetHidden = IF hidden THEN @ \cup {targetId} ELSE @ \ {targetId}]

clearTargetOverrideEdit(s, targetId) ==
    IF MapHas(s.originalTargetOverrides, targetId)
    THEN [s EXCEPT !.editedTargetOverrides = MapSet(@, targetId, ClearedOverride)]
    ELSE [s EXCEPT !.editedTargetOverrides = MapDelete(@, targetId)]

selectTarget(s, targetId) ==
    [s EXCEPT !.selectedTargetId = targetId, !.setFromClickMode = FALSE]

deselectTarget(s) ==
    [s EXCEPT !.selectedTargetId = NULL, !.setFromClickMode = FALSE]

setSetFromClickMode(s, active) ==
    [s EXCEPT !.setFromClickMode = active]

(***************************************************************************)
(* navigator.js: projection of one target / one nearby photo.  cfg is the  *)
(* module's cameraConfig, pcfg the projector's.  Each returns NullObj or a *)
(* marker.                                                                 *)
(***************************************************************************)
NavCameraHeight(cfg) == Coalesce(cfg.height, DEFAULT_CAMERA_HEIGHT)

\* the object a projection function returns for the projection `projected`
\* of a point at the given ground distance: NullObj when it is not visible
MakeMarker(id, projected, pcfg, horizontalDistance, pitch, fov, kind, hasOverride, isHidden, isSelected) ==
    IF ~projected.visible THEN NullObj
    ELSE [id |-> id, screenX |-> projected.screenX, screenY |-> projected.screenY,
          distance |-> projected.distance,
          radius |-> calculateMarkerSize(pcfg, MARKER_WORLD_RADIUS, horizontalDistance, fov),
          flattenY |-> calculateFlattenRatio(pcfg, horizontalDistance, pitch),
          type |-> kind, hasOverride |-> hasOverride,
          isCalibrationSelected |-> isSelected, isHidden |-> isHidden]

projectFromOverride(cfg, pcfg, bearing, groundDistance, target, yaw, pitch, fov, overrideHeight) ==
    MakeMarker(target.id,
               metersToScreen(RDiv(Sin(bearing) * groundDistance, 1000),
                              -NavCameraHeight(cfg) + overrideHeight,
                              -RDiv(Cos(bearing) * groundDistance, 1000),
                              yaw, pitch, fov),
               pcfg, groundDistance, pitch, fov, "navigation", TRUE,
               isTargetHidden(state, target.id), target.id = state.selectedTargetId)

\* x *= distanceScale; z *= distanceScale
ScaleXZ(m, distanceScale) ==
    [x |-> RDiv(m.x * distanceScale, 100), z |-> RDiv(m.z * distanceScale, 100)]

\* the geographic position of a target or nearby photo, scaled
ScaledMeters(cfg, lon, lat) ==
    ScaleXZ(lonLatToMeters(lon, lat, cfg.lon, cfg.lat), Coalesce(cfg.distance_scale, 100))

\* projectTarget, once the effective override is known
projectWithOverride(cfg, pcfg, target, yaw, pitch, fov, override, m) ==
    IF override /= NullObj /\ override.bearing /= NullNum
    THEN projectFromOverride(cfg, pcfg, override.bearing, Coalesce(override.distance, 500),
                             target, yaw, pitch, fov, Coalesce(override.height, 0))
    ELSE MakeMarker(target.id,
                    metersToScreen(m.x, -NavCameraHeight(cfg), m.z, yaw, pitch, fov),
                    pcfg, Hypot(m.x, m.z), pitch, fov, "navigation", override /= NullObj,
                    isTargetHidden(state, target.id), target.id = state.selectedTargetId)

projectTarget(cfg, pcfg, target, yaw, pitch, fov) ==
    projectWithOverride(cfg, pcfg, target, yaw, pitch, fov, getEffectiveOverride(target.id),
                        ScaledMeters(cfg, target.lon, target.lat))

\* projectNearbyPhoto, once the photo's position m is known
projectNearbyAt(cfg, pcfg, photo, yaw, pitch, fov, m) ==
    MakeMarker(photo.id,
               metersToScreen(m.x, -NavCameraHeight(cfg), m.z, yaw, pitch, fov),
               pcfg, Hypot(m.x, m.z), pitch, fov, "nearby", FALSE, FALSE, FALSE)

projectNearbyPhoto(cfg, pcfg, photo, yaw, pitch, fov) ==
    projectNearbyAt(cfg, pcfg, photo, yaw, pitch, fov, ScaledMeters(cfg, photo.lon, photo.lat))

\* the distance of every target of the list from the ground point origin
TargetDistances(targetList, cfg, origin) ==
    [i \in 1..Len(targetList) |->
        Hypot(lonLatToMeters(targetList[i].lon, targetList[i].lat, cfg.lon, cfg.lat).x - origin.x,
              lonLatToMeters(targetList[i].lon, targetList[i].lat, cfg.lon, cfg.lat).z - origin.z)]

\* a faulty search: hidden targets are not skipped
FirstNearestAny(targetList, s, dists) ==
    IF targetList = <<>> THEN 0
    ELSE CHOOSE i \in 1..Len(targetList) :
            \A j \in 1..Len(targetList) :
                dists[i] < dists[j] \/ (dists[i] = dists[j] /\ i <= j)

\* the index of the first non-hidden target with the least distance, or 0
FirstNearest(targetList, s, dists) ==
    IF \A i \in 1..Len(targetList) : isTargetHidden(s, targetList[i].id) THEN 0
    ELSE CHOOSE i \in 1..Len(targetList) :
            /\ ~isTargetHidden(s, targetList[i].id)
            /\ \A j \in 1..Len(targetList) :
                  \/ isTargetHidden(s, targetList[j].id)
                  \/ dists[i] < dists[j]
                  \/ (dists[i] = dists[j] /\ i <= j)

\* the id of targetList[best], or NULL when best is 0
IdAt(targetList, best) == IF best = 0 THEN NULL ELSE targetList[best].id

\* updateNearestTarget(): the new nearestTargetId, when the state object is s
\* and the projector p
updateNearestTarget(targetList, cfg, s, p) ==
    IF targetList = <<>> \/ cfg = NullObj \/ p = NullObj THEN NULL
    ELSE IdAt(targetList,
              FirstNearest(targetList, s, TargetDistances(targetList, cfg, [x |-> 0, z |-> 0])))

\* findNearestTargetToCursor(cursorGround): the id of the target it returns, or NULL
findNearestTargetToCursor(targetList, cfg, cursorGround) ==
    IF targetList = <<>> \/ cfg = NullObj THEN NULL
    ELSE IdAt(targetList,
              FirstNearest(targetList, state, TargetDistances(targetList, cfg, cursorGround)))

MarkerIds(ms) == {ms[i].id : i \in 1..Len(ms)}

\* markers.find(m => m.id === id)
FindMarker(ms, id) ==
    IF id \in MarkerIds(ms)
    THEN ms[CHOOSE i \in 1..Len(ms) : ms[i].id = id /\ \A j \in 1..(i - 1) : ms[j].id /= id]
    ELSE NullObj

\* Math.atan2(dx, -dy) towards the projected marker, or null
ArrowAngle(n, projectedMarker) ==
    IF projectedMarker = NullObj THEN NullNum
    ELSE Atan2Deg(projectedMarker.screenX - n.mouseX, -(projectedMarker.screenY - n.mouseY))

NoCursor == [groundCursor |-> NullObj, cursorNearestTargetId |-> NULL]

\* updateGroundCursor, once the nearest target to the cursor is known
CursorTowards(n, markers, pitch, fov, cursorDistance, nearestId) ==
    [groundCursor |-> [screenX |-> n.mouseX, screenY |-> n.mouseY,
                       flattenY |-> calculateFlattenRatio(projector.cameraConfig,
                                                          cursorDistance, pitch),
                       arrowAngle |-> ArrowAngle(n, IF nearestId = NULL THEN NullObj
                                                    ELSE FindMarker(markers, nearestId)),
                       distance |-> cursorDistance, fov |-> fov],
     cursorNearestTargetId |-> nearestId]

\* updateGroundCursor, once the mouse ray has been cast
CursorOnGround(n, markers, pitch, fov, ground) ==
    IF ground = NullObj THEN NoCursor
    ELSE CursorTowards(n, markers, pitch, fov, Hypot(ground.x, ground.z),
                       findNearestTargetToCursor(n.targets, n.cameraConfig, ground))

\* a faulty cursor update: the cursor is drawn even over a hovered marker
updateGroundCursorWhileHovering(n, hovered, markers, yaw, pitch, fov) ==
    CursorOnGround(n, markers, pitch, fov,
                   screenToGround(projector.cameraConfig, n.mouseX, n.mouseY, yaw, pitch, fov))

\* updateGroundCursor(markers, yaw, pitch, fov): what it leaves in the
\* renderer's groundCursor and in cursorNearestTargetId
updateGroundCursor(n, hovered, markers, yaw, pitch, fov) ==
    IF hovered /= NULL THEN NoCursor
    ELSE CursorOnGround(n, markers, pitch, fov,
                        screenToGround(projector.cameraConfig, n.mouseX, n.mouseY,
                                       yaw, pitch, fov))

\* projected.radius *= scaleFactor
\* a faulty scale factor: applied at every fov, above SCALE_ARROWS_FOV too
ScaleRadiusAlways(m, fov) ==
    IF m = NullObj THEN m
    ELSE [m EXCEPT !.radius = RDiv(@ * (fov - HIDE_ARROWS_FOV),
                                   SCALE_ARROWS_FOV - HIDE_ARROWS_FOV)]

ScaleRadius(m, fov) ==
    IF m = NullObj THEN m
    ELSE [m EXCEPT !.radius = IF fov <= SCALE_ARROWS_FOV
                              THEN RDiv(@ * (fov - HIDE_ARROWS_FOV),
                                        SCALE_ARROWS_FOV - HIDE_ARROWS_FOV)
                              ELSE @]

\* a faulty filter: the markers of hidden targets are dropped
NotNullNorHidden(m) == m /= NullObj /\ ~m.isHidden

\* if (projected)
NotNull(m) == m /= NullObj

\* the navigation markers of one frame
ProjectTargets(n, yaw, pitch, fov) ==
    IF fov > HIDE_ARROWS_FOV
    THEN SelectSeq([i \in 1..Len(n.targets) |->
                       ScaleRadius(projectTarget(n.cameraConfig, projector.cameraConfig,
                                                 n.targets[i], yaw, pitch, fov), fov)],
                   NotNull)
    ELSE <<>>

\* the nearby markers of one frame
ProjectNearby(n, yaw, pitch, fov) ==
    IF fov > HIDE_ARROWS_FOV /\ Len(n.nearbyPhotos) > 0
    THEN SelectSeq([i \in 1..Len(n.nearbyPhotos) |->
                       ScaleRadius(projectNearbyPhoto(n.cameraConfig, projector.cameraConfig,
                                                      n.nearbyPhotos[i], yaw, pitch, fov), fov)],
                   NotNull)
    ELSE <<>>

\* a faulty choice: nearby markers are hit-testable whatever the preview flag
allHittableAlways(previewEnabled, markers, nearbyMarkers) == markers \o nearbyMarkers

\* which markers update() hands to the hit tester
allHittable(previewEnabled, markers, nearbyMarkers) ==
    IF previewEnabled THEN markers \o nearbyMarkers ELSE markers

\* hitMarker ? hitMarker.id : null
IdOf(hitMarker) == IF hitMarker = NullObj THEN NULL ELSE hitMarker.id

\* a faulty frame: the nearest target is recomputed from the cursor each frame
RenderFramePerFrameNearest(n, yaw, pitch, fov, markers, nearbyMarkers, hittable, newHoveredId, cursor) ==
    [nav |-> [n EXCEPT !.currentYaw = yaw, !.currentPitch = pitch, !.currentFov = fov,
                       !.hoveredId = newHoveredId,
                       !.nearestTargetId = cursor.cursorNearestTargetId,
                       !.cursorNearestTargetId = cursor.cursorNearestTargetId],
     hitTester |-> [markers |-> hittable],
     navRenderer |-> [navRenderer EXCEPT
                        !.markers = markers,
                        !.selectedMarkerId = NULL,
                        !.nearestMarkerId = cursor.cursorNearestTargetId,
                        !.groundCursor = cursor.groundCursor,
                        !.cursorNearestMarkerId = cursor.cursorNearestTargetId,
                        !.nearbyMarkers = IF n.nearbyPreviewEnabled THEN nearbyMarkers
                                          ELSE <<>>]]

\* update, from the renderer calls on
RenderFrame(n, yaw, pitch, fov, markers, nearbyMarkers, hittable, newHoveredId, cursor) ==
    [nav |-> [n EXCEPT !.currentYaw = yaw, !.currentPitch = pitch, !.currentFov = fov,
                       !.hoveredId = newHoveredId,
                       !.cursorNearestTargetId = cursor.cursorNearestTargetId],
     hitTester |-> [markers |-> hittable],
     navRenderer |-> [navRenderer EXCEPT
                        !.markers = markers,
                        !.selectedMarkerId = NULL,
                        !.nearestMarkerId = n.nearestTargetId,
                        !.groundCursor = cursor.groundCursor,
                        !.cursorNearestMarkerId = cursor.cursorNearestTargetId,
                        !.nearbyMarkers = IF n.nearbyPreviewEnabled THEN nearbyMarkers
                                          ELSE <<>>]]

\* update, from the hover test on
HoverFrame(n, yaw, pitch, fov, markers, nearbyMarkers, hittable, newHoveredId) ==
    RenderFrame(n, yaw, pitch, fov, markers, nearbyMarkers, hittable, newHoveredId,
                updateGroundCursor(n, newHoveredId, markers, yaw, pitch, fov))

\* update, from hitTester.setMarkers on
HitFrame(n, yaw, pitch, fov, markers, nearbyMarkers, hittable) ==
    HoverFrame(n, yaw, pitch, fov, markers, nearbyMarkers, hittable,
               IdOf(testPoint(hittable, n.mouseX, n.mouseY)))

\* update, once both marker lists are projected
ProjectedFrame(n, yaw, pitch, fov, markers, nearbyMarkers) ==
    HitFrame(n, yaw, pitch, fov, markers, nearbyMarkers,
             HitSetMarkers(allHittable(n.nearbyPreviewEnabled, markers, nearbyMarkers)))

\* a faulty update: a frame without camera config clears the overlay
updateClearing(n, cameraState) ==
    IF projector = NullObj \/ navRenderer = NullObj \/ n.cameraConfig = NullObj
    THEN [nav |-> [n EXCEPT !.hoveredId = NULL, !.cursorNearestTargetId = NULL],
          hitTester |-> [markers |-> <<>>],
          navRenderer |-> [navRenderer EXCEPT !.markers = <<>>, !.groundCursor = NullObj]]
    ELSE ProjectedFrame(n, -(Coalesce(n.cameraConfig.heading, 0) + cameraState.yaw),
                        cameraState.pitch, cameraState.fov,
                        ProjectTargets(n, -(Coalesce(n.cameraConfig.heading, 0) + cameraState.yaw),
                                       cameraState.pitch, cameraState.fov),
                        ProjectNearby(n, -(Coalesce(n.cameraConfig.heading, 0) + cameraState.yaw),
                                      cameraState.pitch, cameraState.fov))

\* update(cameraState), run on the navigator fields n: the navigator fields,
\* the hit tester and the renderer it leaves
update(n, cameraState) ==
    IF projector = NullObj \/ navRenderer = NullObj \/ n.cameraConfig = NullObj
    THEN [nav |-> n, hitTester |-> hitTester, navRenderer |-> navRenderer]
    ELSE ProjectedFrame(n, -(Coalesce(n.cameraConfig.heading, 0) + cameraState.yaw),
                        cameraState.pitch, cameraState.fov,
                        ProjectTargets(n, -(Coalesce(n.cameraConfig.heading, 0) + cameraState.yaw),
                                       cameraState.pitch, cameraState.fov),
                        ProjectNearby(n, -(Coalesce(n.cameraConfig.heading, 0) + cameraState.yaw),
                                      cameraState.pitch, cameraState.fov))

\* updateCameraState(cameraState)
updateCameraState(n, cameraState) ==
    [n EXCEPT !.currentYaw = -((IF n.cameraConfig = NullObj THEN 0
                                ELSE Coalesce(n.cameraConfig.heading, 0)) + cameraState.yaw),
              !.currentPitch = cameraState.pitch,
              !.currentFov = cameraState.fov]

\* a faulty conversion: a negative angle is not brought into [0, 360)
bearingDegRaw(ground) == Atan2Deg(ground.x, -ground.z)

\* the bearing handleClick derives from a ground point: atan2 in degrees,
\* plus 360 when negative
bearingDeg(ground) ==
    IF Atan2Deg(ground.x, -ground.z) < 0
    THEN Atan2Deg(ground.x, -ground.z) + 360
    ELSE Atan2Deg(ground.x, -ground.z)

\* handleClick in "set from click" mode, once the click ray has been cast
reportGround(ground) ==
    IF ground /= NullObj
    THEN <<[cb |-> "onSetFromClick", bearing |-> bearingDeg(ground),
            distance |-> Hypot(ground.x, ground.z)]>>
    ELSE <<>>

\* a faulty dispatch: a nearby marker is reported whatever the preview flag
dispatchHitIgnoringPreview(hitMarker) ==
    IF hitMarker = NullObj THEN <<>>
    ELSE IF hitMarker.type = "nearby" /\ nav.onNearbyClickCallback /= NULL
    THEN <<[cb |-> "onNearbyClick", id |-> hitMarker.id]>>
    ELSE IF hitMarker.type = "nearby"
    THEN <<[cb |-> "onNearbyClick", id |-> hitMarker.id]>>
    ELSE IF hitMarker.type = "navigation" /\ nav.onTargetSelectCallback
    THEN <<[cb |-> "onTargetSelect", id |-> hitMarker.id]>>
    ELSE <<>>

\* handleClick in normal mode, once the hit test has run
dispatchHit(hitMarker) ==
    IF hitMarker = NullObj THEN <<>>
    ELSE IF hitMarker.type = "nearby" /\ nav.nearbyPreviewEnabled
            /\ nav.onNearbyClickCallback /= NULL
    THEN <<[cb |-> "onNearbyClick", id |-> hitMarker.id]>>
    ELSE IF hitMarker.type = "navigation" /\ nav.onTargetSelectCallback
    THEN <<[cb |-> "onTargetSelect", id |-> hitMarker.id]>>
    ELSE <<>>

\* handleClick(event): the callbacks it invokes, in order
handleClick(event) ==
    IF ~nav.overlayCanvas THEN <<>>
    ELSE IF state.setFromClickMode /\ state.selectedTargetId /= NULL
    THEN IF nav.onSetFromClickCallback /\ projector /= NullObj
         THEN reportGround(screenToGround(projector.cameraConfig, event[1], event[2],
                                          nav.currentYaw, nav.currentPitch, nav.currentFov))
         ELSE <<>>
    ELSE dispatchHit(testPoint(hitTester.markers, event[1], event[2]))

\* app.js onSetFromClick(groundOverride)
onSetFromClick(s, groundOverride) ==
    IF s.selectedTargetId = NULL THEN s
    ELSE setSetFromClickMode(
             setTargetOverride(s, s.selectedTargetId, groundOverride.bearing,
                               groundOverride.distance, 0),
             FALSE)

\* app.js handleNearbySelect(nearbyPhoto)
handleNearbySelect(s, nearbyPhoto) == deselectTarget(s)

\* the callback wiring of app.js initializeSubsystems / handleNearbyPreviewToggle
RunCallback(s, call) ==
    IF call.cb = "onSetFromClick" THEN onSetFromClick(s, call)
    ELSE IF call.cb = "onTargetSelect" THEN selectTarget(s, call.id)
    ELSE handleNearbySelect(s, call)

RECURSIVE RunCallbacks(_, _)
RunCallbacks(s, calls) ==
    IF calls = <<>> THEN s ELSE RunCallbacks(RunCallback(s, Head(calls)), Tail(calls))

(***************************************************************************)
(* viewer.js: the camera orbit state, in degrees                           *)
(***************************************************************************)
InitViewer ==
    [lon |-> 0, lat |-> 0, fov |-> 75, isDragging |-> FALSE, dragStartX |-> 0,
     dragStartY |-> 0, dragStartLon |-> 0, dragStartLat |-> 0]

\* getCameraState(): lon and lat converted to radians (here: kept in degrees)
getCameraState(v) == [yaw |-> v.lon, pitch |-> v.lat, fov |-> v.fov]

(***************************************************************************)
(* index.db as the server finds it: the three photos of the seeded project *)
(* and one photo of another project, and the two original connections      *)
(* between the first two photos.  lat and lon are in 1/10000 degree,       *)
(* angles, scales, distances and bearings in hundredths.                   *)
(***************************************************************************)
PhotoRow(project, lat, lon) ==
    [project_id |-> project, lat |-> lat, lon |-> lon, mesh_rotation_y |-> 18000,
     mesh_rotation_x |-> 0, mesh_rotation_z |-> 0, distance_scale |-> 100,
     marker_scale |-> 100, camera_height |-> 165]

SeedPhotos ==
    [id \in {"p1", "p2", "p3", "q1"} |->
        CASE id = "p1" -> PhotoRow("A", 0 - 297500, 0 - 557800)
          [] id = "p2" -> PhotoRow("A", 0 - 297501, 0 - 557801)
          [] id = "p3" -> PhotoRow("A", 0 - 297502, 0 - 557802)
          [] id = "q1" -> PhotoRow("B", 0 - 297503, 0 - 557803)]

TargetRow(source, target, distance, bearing, next, original) ==
    [source_id |-> source, target_id |-> target, distance_m |-> distance,
     bearing_deg |-> bearing, is_next |-> next, is_original |-> original,
     override_bearing |-> NullNum, override_distance |-> NullNum,
     override_height |-> NullNum, hidden |-> 0]

SeedTargets ==
    {TargetRow("p1", "p2", 1530, 4500, 1, 1), TargetRow("p2", "p1", 1530, 22500, 0, 1)}

SeedDb == [photos |-> SeedPhotos, targets |-> SeedTargets]

(***************************************************************************)
(* Initial state: the module-level initial values of navigator.js and the  *)
(* state object of state.js, before initNavigator has run.                 *)
(***************************************************************************)
NoEvent == <<0, 0>>

Other == [op |-> "other", event |-> NoEvent, ran |-> FALSE, calls |-> <<>>,
          setFromClickMode |-> FALSE, selectedTargetId |-> NULL]

Init ==
    /\ state = [selectedTargetId |-> NULL, setFromClickMode |-> FALSE,
                originalTargetOverrides |-> EmptyMap, editedTargetOverrides |-> EmptyMap,
                originalTargetHidden |-> {}, editedTargetHidden |-> {}]
    /\ nav = [overlayCanvas |-> FALSE, cameraConfig |-> NullObj, targets |-> <<>>,
              nearbyPhotos |-> <<>>, nearbyPreviewEnabled |-> FALSE,
              onNearbyClickCallback |-> NULL, nearestTargetId |-> NULL,
              cursorNearestTargetId |-> NULL, mouseX |-> 0, mouseY |-> 0,
              hoveredId |-> NULL, currentYaw |-> 0, currentPitch |-> 0, currentFov |-> 75,
              onTargetSelectCallback |-> FALSE, onSetFromClickCallback |-> FALSE]
    /\ projector = NullObj
    /\ hitTester = NullObj
    /\ navRenderer = NullObj
    /\ last = Other
    /\ pending = 0
    /\ viewer = InitViewer
    /\ db = SeedDb

\* a handler other than the frame callback runs
Handler ==
    /\ pending < MaxPending
    /\ pending' = pending + 1

\* initNavigator(container, { onTargetSelect, onSetFromClick }): the
\* navigator fields it leaves
initNavigator(n) ==
    [n EXCEPT !.overlayCanvas = TRUE, !.onTargetSelectCallback = TRUE,
              !.onSetFromClickCallback = TRUE]

NewProjector == [cameraConfig |-> NullObj]

NewHitTester == [markers |-> <<>>]

NewRenderer ==
    [markers |-> <<>>, nearbyMarkers |-> <<>>, hoveredMarkerId |-> NULL,
     selectedMarkerId |-> NULL, nearestMarkerId |-> NULL,
     cursorNearestMarkerId |-> NULL, groundCursor |-> NullObj]

\* setCameraConfig(config): the navigator fields it leaves (the projector
\* receives the same config)
setCameraConfig(n, config) == [n EXCEPT !.cameraConfig = config]

\* setTargets(newTargets), run when the state object is s and the projector p
setTargets(n, s, p, newTargets) ==
    [n EXCEPT !.targets = newTargets,
              !.nearestTargetId = updateNearestTarget(newTargets, n.cameraConfig, s, p)]

\* app.js startCalibration(photoId), from the metadata's arrival to the
\* start of the panorama download: loadPhoto, initializeSubsystems (once),
\* setCameraConfig, setTargets
StartCalibration ==
    \E metadata \in Metadatas :
        LET s == loadPhoto(state, metadata.targets)
            initialized == nav.overlayCanvas
            p == [(IF initialized THEN projector ELSE NewProjector)
                     EXCEPT !.cameraConfig = metadata.camera]
            n == setCameraConfig(IF initialized THEN nav ELSE initNavigator(nav),
                                 metadata.camera)
        IN  /\ Handler
            /\ state' = s
            /\ projector' = p
            /\ hitTester' = IF initialized THEN hitTester ELSE NewHitTester
            /\ navRenderer' = IF initialized THEN navRenderer ELSE NewRenderer
            /\ nav' = setTargets(n, s, p, metadata.targets)
            /\ last' = Other
            /\ UNCHANGED <<viewer, db>>

\* the nearby-photo fetch of startCalibration resolves: setNearbyPhotos(photos)
SetNearbyPhotos ==
    \E photos \in NearbyLists :
        /\ Handler
        /\ nav' = [nav EXCEPT !.nearbyPhotos = photos]
        /\ last' = Other
        /\ UNCHANGED <<state, projector, hitTester, navRenderer, viewer, db>>

\* app.js handleNearbyPreviewToggle(enabled):
\* setNearbyPreviewMode(enabled, enabled ? handleNearbySelect : null)
SetNearbyPreviewMode ==
    \E enabled \in BOOLEAN :
        /\ Handler
        /\ nav' = [nav EXCEPT !.nearbyPreviewEnabled = enabled,
                              !.onNearbyClickCallback =
                                  IF enabled THEN "handleNearbySelect" ELSE NULL]
        /\ last' = Other
        /\ UNCHANGED <<state, projector, hitTester, navRenderer, viewer, db>>

OnMouseMove ==
    \E e \in Points :
        /\ Handler
        /\ nav.overlayCanvas
        /\ nav' = [nav EXCEPT !.mouseX = e[1], !.mouseY = e[2]]
        /\ last' = Other
        /\ UNCHANGED <<state, projector, hitTester, navRenderer, viewer, db>>

\* app.js onViewerRender(cameraState): updateCameraState then update.  The
\* camera state is the one the viewer has reached by this frame, whatever
\* pointer and wheel events brought it there
OnViewerRender ==
    \E cameraState \in CameraStates :
        LET r == update(updateCameraState(nav, cameraState), cameraState)
        IN  /\ nav' = r.nav
            /\ hitTester' = r.hitTester
            /\ navRenderer' = r.navRenderer
            /\ last' = [Other EXCEPT !.op = "update",
                                     !.ran = projector /= NullObj /\ navRenderer /= NullObj
                                             /\ nav.cameraConfig /= NullObj]
            /\ pending' = 0
            /\ viewer' = [viewer EXCEPT !.lon = cameraState.yaw, !.lat = cameraState.pitch,
                                        !.fov = cameraState.fov]
            /\ UNCHANGED <<state, projector, db>>

\* app.js onViewerClick(event): handleClick and the callbacks it invokes
HandleClick ==
    \E event \in Points :
        LET calls == handleClick(event)
        IN  /\ Handler
            /\ state' = RunCallbacks(state, calls)
            /\ last' = [op |-> "handleClick", event |-> event, ran |-> nav.overlayCanvas,
                        calls |-> calls, setFromClickMode |-> state.setFromClickMode,
                        selectedTargetId |-> state.selectedTargetId]
            /\ UNCHANGED <<nav, projector, hitTester, navRenderer, viewer, db>>

SelectTarget ==
    \E targetId \in EditIds :
        /\ Handler
        /\ state' = selectTarget(state, targetId)
        /\ last' = Other
        /\ UNCHANGED <<nav, projector, hitTester, navRenderer, viewer, db>>

DeselectTarget ==
    /\ Handler
    /\ state' = deselectTarget(state)
    /\ last' = Other
    /\ UNCHANGED <<nav, projector, hitTester, navRenderer, viewer, db>>

SetSetFromClickMode ==
    \E active \in BOOLEAN :
        /\ Handler
        /\ state' = setSetFromClickMode(state, active)
        /\ last' = Other
        /\ UNCHANGED <<nav, projector, hitTester, navRenderer, viewer, db>>

\* the override editor: setTargetOverride(state.selectedTargetId, ...)
SetTargetOverride ==
    \E o \in PanelOverrides :
        /\ Handler
        /\ state.selectedTargetId /= NULL
        /\ state' = setTargetOverride(state, state.selectedTargetId,
                                      o.bearing, o.distance, o.height)
        /\ last' = Other
        /\ UNCHANGED <<nav, projector, hitTester, navRenderer, viewer, db>>

ClearTargetOverrideEdit ==
    \E targetId \in EditIds :
        /\ Handler
        /\ state' = clearTargetOverrideEdit(state, targetId)
        /\ last' = Other
        /\ UNCHANGED <<nav, projector, hitTester, navRenderer, viewer, db>>

SetTargetHidden ==
    \E targetId \in EditIds, hidden \in BOOLEAN :
        /\ Handler
        /\ state' = setTargetHidden(state, targetId, hidden)
        /\ last' = Other
        /\ UNCHANGED <<nav, projector, hitTester, navRenderer, viewer, db>>

Next ==
    \/ StartCalibration
    \/ SetNearbyPhotos
    \/ SetNearbyPreviewMode
    \/ OnMouseMove
    \/ OnViewerRender
    \/ HandleClick
    \/ SelectTarget
    \/ DeselectTarget
    \/ SetSetFromClickMode
    \/ SetTargetOverride
    \/ ClearTargetOverrideEdit
    \/ SetTargetHidden

Spec == Init /\ [][Next]_vars

(***************************************************************************)
(* Override resolution on its own: every combination of an original and an *)
(* edited entry, among them those no sequence of edits produces            *)
(***************************************************************************)
OverrideValues ==
    {[bearing |-> 357, distance |-> 997, height |-> 0],
     [bearing |-> 179, distance |-> 2841, height |-> 0]}

OverrideMaps(values) == UNION {[D -> values] : D \in SUBSET TargetIds}

InitOverride ==
    /\ state \in {[selectedTargetId |-> NULL, setFromClickMode |-> FALSE,
                   originalTargetOverrides |-> o, editedTargetOverrides |-> e,
                   originalTargetHidden |-> {}, editedTargetHidden |-> {}] :
                      o \in OverrideMaps(OverrideValues),
                      e \in OverrideMaps(OverrideValues \cup {ClearedOverride})}
    /\ nav = [overlayCanvas |-> FALSE, cameraConfig |-> NullObj, targets |-> <<>>,
              nearbyPhotos |-> <<>>, nearbyPreviewEnabled |-> FALSE,
              onNearbyClickCallback |-> NULL, nearestTargetId |-> NULL,
              cursorNearestTargetId |-> NULL, mouseX |-> 0, mouseY |-> 0,
              hoveredId |-> NULL, currentYaw |-> 0, currentPitch |-> 0, currentFov |-> 75,
              onTargetSelectCallback |-> FALSE, onSetFromClickCallback |-> FALSE]
    /\ projector = NullObj
    /\ hitTester = NullObj
    /\ navRenderer = NullObj
    /\ last = Other
    /\ pending = 0
    /\ viewer = InitViewer
    /\ db = SeedDb

GetEffectiveOverride ==
    \E targetId \in TargetIds :
        /\ last' = [op |-> "getEffectiveOverride", targetId |-> targetId,
                    result |-> getEffectiveOverride(targetId)]
        /\ UNCHANGED <<state, nav, projector, hitTester, navRenderer, pending, viewer, db>>

NextOverride ==
    \/ GetEffectiveOverride
    \/ ClearTargetOverrideEdit

SpecOverride == InitOverride /\ [][NextOverride]_vars

IsCleared(o) == o.bearing = NullNum /\ o.distance = NullNum

\* C1: for every target id and every combination of original entry (absent or
\* set) and edited entry (absent, set, or cleared), getEffectiveOverride
\* returns the edited entry when it is set, null when the edited entry is the
\* cleared sentinel, otherwise the original entry when present, otherwise null.
C1_EffectiveOverrideResolution ==
    last.op = "getEffectiveOverride" =>
        LET id == last.targetId
            o == state.originalTargetOverrides
            e == state.editedTargetOverrides
        IN  /\ (id \in DOMAIN e /\ ~IsCleared(e[id])) => last.result = e[id]
            /\ (id \in DOMAIN e /\ IsCleared(e[id])) => last.result = NullObj
            /\ (id \notin DOMAIN e /\ id \in DOMAIN o) => last.result = o[id]
            /\ (id \notin DOMAIN e /\ id \notin DOMAIN o) => last.result = NullObj

\* a cleared edit over a saved override resolves to null
C1_ClearedOverSaved ==
    /\ last.op = "getEffectiveOverride"
    /\ last.targetId \in DOMAIN state.originalTargetOverrides
    /\ last.targetId \in DOMAIN state.editedTargetOverrides
    /\ IsCleared(state.editedTargetOverrides[last.targetId])
    /\ last.result = NullObj

(***************************************************************************)
(* Properties of the navigator, read off the handler that ran last         *)
(***************************************************************************)
\* the callbacks the last click invoked
CallKinds == {last.calls[i].cb : i \in 1..Len(last.calls)}

\* the last handler was a click that found Set-from-click mode on and a target selected
ClickInSetFromClick ==
    /\ last.op = "handleClick"
    /\ last.setFromClickMode
    /\ last.selectedTargetId /= NULL

\* where the last click's ray meets the ground (NullObj: nowhere)
ClickRay ==
    screenToGround(projector.cameraConfig, last.event[1], last.event[2],
                   nav.currentYaw, nav.currentPitch, nav.currentFov)

C3_ModeLastsOneClick ==
    (ClickInSetFromClick /\ last.ran) => ~state.setFromClickMode

\* a click in the sky is handled and the mode is still on
C3_SkyClickKeepsMode ==
    /\ ClickInSetFromClick
    /\ last.ran
    /\ ClickRay = NullObj
    /\ last.calls = <<>>
    /\ state.setFromClickMode

\* C4: a click that arrives while setFromClickMode is true but no target is
\* selected is a no-op: no callback is invoked and no state changes, even if
\* the click lands on a marker.
C4_StaleModeClickIgnored ==
    (last.op = "handleClick" /\ last.setFromClickMode /\ last.selectedTargetId = NULL) =>
        /\ last.calls = <<>>
        /\ state.setFromClickMode
        /\ state.selectedTargetId = NULL

\* a click on a marker in stale mode selects the marker's target and ends the mode
C4_StaleModeClickSelects ==
    /\ last.op = "handleClick"
    /\ last.setFromClickMode
    /\ last.selectedTargetId = NULL
    /\ Len(last.calls) = 1
    /\ last.calls[1].cb = "onTargetSelect"
    /\ state.selectedTargetId = last.calls[1].id
    /\ ~state.setFromClickMode

\* the marker the last click hit (NullObj: none)
ClickHit == testPoint(hitTester.markers, last.event[1], last.event[2])

\* C5: in Normal mode handleClick dispatches solely by the kind of the marker
\* returned by the hit test: a navigation marker invokes onTargetSelect with
\* that marker's id exactly once, a nearby marker invokes the nearby-click
\* callback only if the preview flag is on, and a click that hits no marker
\* invokes no callback and changes no mode flag or selection.
C5_NormalModeDispatch ==
    (last.op = "handleClick" /\ last.ran /\ ~last.setFromClickMode) =>
        /\ ClickHit = NullObj =>
               /\ last.calls = <<>>
               /\ state.setFromClickMode = last.setFromClickMode
               /\ state.selectedTargetId = last.selectedTargetId
        /\ (ClickHit /= NullObj /\ ClickHit.type = "navigation") =>
               last.calls = <<[cb |-> "onTargetSelect", id |-> ClickHit.id]>>
        /\ (ClickHit /= NullObj /\ ClickHit.type = "nearby") =>
               /\ "onTargetSelect" \notin CallKinds
               /\ nav.nearbyPreviewEnabled =>
                      last.calls = <<[cb |-> "onNearbyClick", id |-> ClickHit.id]>>
               /\ ~nav.nearbyPreviewEnabled => last.calls = <<>>

\* a click on a nearby marker still in the hit tester, the preview flag
\* already off, invokes nothing
C5_StaleNearbyMarkerIgnored ==
    /\ last.op = "handleClick"
    /\ last.ran
    /\ ~last.setFromClickMode
    /\ ClickHit /= NullObj
    /\ ClickHit.type = "nearby"
    /\ ~nav.nearbyPreviewEnabled
    /\ last.calls = <<>>

\* the last handler was a frame that update() ran to its end
Updated == last.op = "update" /\ last.ran

NearbyIn(ms) == {i \in 1..Len(ms) : ms[i].type = "nearby"}

\* C6: while the nearby-preview flag is off, nearby-photo markers are never
\* hit-testable or drawn: after every update() the hit tester's marker set
\* and the renderer's nearby list contain no nearby marker, hoveredId is never
\* a nearby photo id, and handleClick never invokes the nearby-click callback.
C6_NearbyOffNeverHittable ==
    ~nav.nearbyPreviewEnabled =>
        /\ Updated =>
               /\ NearbyIn(hitTester.markers) = {}
               /\ navRenderer.nearbyMarkers = <<>>
               /\ nav.hoveredId \notin NearbyIds
        /\ last.op = "handleClick" => "onNearbyClick" \notin CallKinds

\* a frame with the flag off, nearby photos loaded and the mouse where the
\* nearby marker would be: the target under it is the one hovered
C6_NearbyComputedButExcluded ==
    /\ Updated
    /\ ~nav.nearbyPreviewEnabled
    /\ nav.nearbyPhotos /= <<>>
    /\ nav.currentFov > HIDE_ARROWS_FOV
    /\ nav.hoveredId \in TargetIds
    /\ hitTester.markers /= <<>>

\* C7: in Normal mode the hovered marker is highlighted: after every update()
\* the renderer's hovered-marker id equals the navigator's hoveredId.
C7_HoverHighlighted ==
    (Updated /\ ~state.setFromClickMode) => navRenderer.hoveredMarkerId = nav.hoveredId

\* a frame leaves a marker hovered and the renderer's hovered-marker id null
C7_HoverNeverReachesRenderer ==
    /\ Updated
    /\ ~state.setFromClickMode
    /\ nav.hoveredId \in TargetIds
    /\ navRenderer.hoveredMarkerId = NULL

\* C8: nearestTargetId never names a hidden target: after any sequence of
\* setTargets, setTargetHidden and update calls, nearestTargetId is either
\* null or the id of a target for which isTargetHidden is currently false.
C8_NearestNeverHidden ==
    nav.nearestTargetId /= NULL => ~isTargetHidden(state, nav.nearestTargetId)

\* a frame draws with a hidden target still handed to the renderer as nearest
C8_HiddenStillNearest ==
    /\ Updated
    /\ nav.nearestTargetId /= NULL
    /\ isTargetHidden(state, nav.nearestTargetId)
    /\ navRenderer.nearestMarkerId = nav.nearestTargetId

\* C9 as stated: after every update() in which the ground cursor is computed,
\* cursorNearestTargetId is either null or the id of a target that is both not
\* hidden and visible in that frame (present in the frame's marker list).
C9_CursorNearestVisible ==
    (Updated /\ navRenderer.groundCursor /= NullObj /\ nav.cursorNearestTargetId /= NULL) =>
        /\ ~isTargetHidden(state, nav.cursorNearestTargetId)
        /\ nav.cursorNearestTargetId \in MarkerIds(navRenderer.markers)

\* C9, amended: after every update() in which the ground cursor is computed,
\* cursorNearestTargetId is either null or the id of a target of the current
\* list that is not hidden; the target need not be in the frame's marker list.
C9_CursorNearestNotHidden ==
    (Updated /\ navRenderer.groundCursor /= NullObj /\ nav.cursorNearestTargetId /= NULL) =>
        /\ ~isTargetHidden(state, nav.cursorNearestTargetId)
        /\ \E i \in 1..Len(nav.targets) : nav.targets[i].id = nav.cursorNearestTargetId

\* the ground cursor is computed and points past a hidden, nearer target
C9_CursorSkipsHidden ==
    /\ Updated
    /\ navRenderer.groundCursor /= NullObj
    /\ nav.cursorNearestTargetId = TargetName[2]
    /\ isTargetHidden(state, TargetName[1])

\* where the mouse ray met the ground in the last frame (NullObj: nowhere)
MouseRay ==
    screenToGround(projector.cameraConfig, nav.mouseX, nav.mouseY,
                   nav.currentYaw, nav.currentPitch, nav.currentFov)

\* C10: after every update() that runs with a camera config, if a marker is
\* hovered or the mouse ray does not reach the ground, then the renderer's
\* ground cursor is null and cursorNearestTargetId is null.
C10_NoCursorWhenHoveringOrSky ==
    (Updated /\ (nav.hoveredId /= NULL \/ MouseRay = NullObj)) =>
        /\ navRenderer.groundCursor = NullObj
        /\ nav.cursorNearestTargetId = NULL

\* a marker is hovered at a point where the ray does reach the ground
C10_HoverSuppressesCursor ==
    /\ Updated
    /\ nav.hoveredId /= NULL
    /\ MouseRay /= NullObj
    /\ navRenderer.groundCursor = NullObj
    /\ nav.cursorNearestTargetId = NULL

(***************************************************************************)
(* The viewer's own handlers (viewer.js), from a session in which a target *)
(* is selected and Set-from-click mode is on: pointer and wheel events     *)
(* move the camera between frames, animate() hands the camera to           *)
(* onViewerRender, and a short press is a click.                           *)
(***************************************************************************)
\* e.deltaY of a wheel event
WheelDeltas == {0 - 1300, 1300}

\* the pointer positions of the gestures: on the first target's marker, and
\* 30 px to its left
PointerPoints == {<<380, 398>>, <<350, 398>>}

\* how far, in degrees, the camera may be dragged from its initial longitude
MaxLon == 3

\* onWheel(e)
onWheel(v, deltaY) == [v EXCEPT !.fov = Max(10, Min(75, @ + RDiv(deltaY * 5, 100)))]

\* onPointerDown(e)
onPointerDown(v, e) ==
    [v EXCEPT !.isDragging = TRUE, !.dragStartX = e[1], !.dragStartY = e[2],
              !.dragStartLon = v.lon, !.dragStartLat = v.lat]

\* onPointerMove(e): sensitivity = 0.1 * fov / 75
onPointerMove(v, e) ==
    IF ~v.isDragging THEN v
    ELSE [v EXCEPT !.lon = v.dragStartLon - RDiv((e[1] - v.dragStartX) * v.fov, 750),
                   !.lat = Max(0 - 85, Min(85, v.dragStartLat
                                               + RDiv((e[2] - v.dragStartY) * v.fov, 750)))]

\* onPointerUp(e): whether the release is a click, quick saying that less
\* than 300 ms have passed since the press
isClick(v, e, quick) ==
    /\ v.isDragging
    /\ Abs(e[1] - v.dragStartX) < 5
    /\ Abs(e[2] - v.dragStartY) < 5
    /\ quick

InitViewerSession ==
    \E metadata \in Metadatas :
        LET s == loadPhoto([selectedTargetId |-> NULL, setFromClickMode |-> FALSE,
                            originalTargetOverrides |-> EmptyMap,
                            editedTargetOverrides |-> EmptyMap,
                            originalTargetHidden |-> {}, editedTargetHidden |-> {}],
                           metadata.targets)
            p == [NewProjector EXCEPT !.cameraConfig = metadata.camera]
        IN  /\ state = setSetFromClickMode(selectTarget(s, TargetName[1]), TRUE)
            /\ projector = p
            /\ hitTester = NewHitTester
            /\ navRenderer = NewRenderer
            /\ nav = setTargets(
                         setCameraConfig(
                             [overlayCanvas |-> TRUE, cameraConfig |-> NullObj,
                              targets |-> <<>>, nearbyPhotos |-> <<>>,
                              nearbyPreviewEnabled |-> FALSE, onNearbyClickCallback |-> NULL,
                              nearestTargetId |-> NULL, cursorNearestTargetId |-> NULL,
                              mouseX |-> 0, mouseY |-> 0, hoveredId |-> NULL,
                              currentYaw |-> 0, currentPitch |-> 0, currentFov |-> 75,
                              onTargetSelectCallback |-> TRUE,
                              onSetFromClickCallback |-> TRUE],
                             metadata.camera),
                         s, p, metadata.targets)
            /\ last = Other
            /\ pending = 0
            /\ viewer = InitViewer
            /\ db = SeedDb

OnWheel ==
    \E deltaY \in WheelDeltas :
        /\ Handler
        /\ viewer' = onWheel(viewer, deltaY)
        /\ last' = Other
        /\ UNCHANGED <<state, nav, projector, hitTester, navRenderer, db>>

OnPointerDown ==
    \E e \in PointerPoints :
        /\ Handler
        /\ viewer' = onPointerDown(viewer, e)
        /\ last' = Other
        /\ UNCHANGED <<state, nav, projector, hitTester, navRenderer, db>>

OnPointerMove ==
    \E e \in PointerPoints :
        /\ Handler
        /\ Abs(onPointerMove(viewer, e).lon) <= MaxLon
        /\ viewer' = onPointerMove(viewer, e)
        /\ last' = Other
        /\ UNCHANGED <<state, nav, projector, hitTester, navRenderer, db>>

\* onPointerUp(e): a click is handed to app.js onViewerClick, that is to
\* handleClick and the callbacks it invokes
OnPointerUp ==
    \E e \in PointerPoints, quick \in BOOLEAN :
        /\ Handler
        /\ viewer' = [viewer EXCEPT !.isDragging = FALSE]
        /\ IF isClick(viewer, e, quick)
           THEN /\ state' = RunCallbacks(state, handleClick(e))
                /\ last' = [op |-> "handleClick", event |-> e, ran |-> nav.overlayCanvas,
                            calls |-> handleClick(e),
                            setFromClickMode |-> state.setFromClickMode,
                            selectedTargetId |-> state.selectedTargetId]
           ELSE /\ state' = state
                /\ last' = Other
        /\ UNCHANGED <<nav, projector, hitTester, navRenderer, db>>

\* animate(): the frame's camera is the viewer's, handed to onViewerRender
Animate ==
    LET cameraState == getCameraState(viewer)
        r == update(updateCameraState(nav, cameraState), cameraState)
    IN  /\ nav' = r.nav
        /\ hitTester' = r.hitTester
        /\ navRenderer' = r.navRenderer
        /\ last' = [Other EXCEPT !.op = "update",
                                 !.ran = projector /= NullObj /\ navRenderer /= NullObj
                                         /\ nav.cameraConfig /= NullObj]
        /\ pending' = 0
        /\ UNCHANGED <<state, projector, viewer, db>>

NextViewer ==
    \/ OnWheel
    \/ OnPointerDown
    \/ OnPointerMove
    \/ OnPointerUp
    \/ Animate

SpecViewer == InitViewerSession /\ [][NextViewer]_vars

\* what handleClick would report for the last click had it cast the ray with
\* the camera the viewer has at the click
CallsAtViewerCamera ==
    reportGround(screenToGround(projector.cameraConfig, last.event[1], last.event[2],
                                updateCameraState(nav, getCameraState(viewer)).currentYaw,
                                viewer.lat, viewer.fov))

\* C11: a click in Set-from-click mode is converted to ground coordinates
\* with the viewer's yaw, pitch and fov as they are at the moment of the
\* click, even when pointer or wheel events have changed the camera since the
\* last rendered frame.
C11_ClickUsesCameraAtClick ==
    (ClickInSetFromClick /\ last.ran) => last.calls = CallsAtViewerCamera

\* the wheel has zoomed since the last frame and the click is reported with
\* the last frame's field of view
C11_ClickUsesLastFrame ==
    /\ ClickInSetFromClick
    /\ last.ran
    /\ viewer.fov /= nav.currentFov
    /\ last.calls /= <<>>
    /\ last.calls /= CallsAtViewerCamera
    /\ last.calls = reportGround(ClickRay)

(***************************************************************************)
(* The hit tester on its own: setMarkers on every list of up to MaxMarkers *)
(* distinct markers of a pool with overlapping ellipses, equal distances   *)
(* and an empty hit area, then testPoint on points inside and outside.     *)
(***************************************************************************)
MaxMarkers == 3

PoolMarker(id, x, y, radius, flattenY, distance) ==
    [id |-> id, screenX |-> x, screenY |-> y, radius |-> radius, flattenY |-> flattenY,
     distance |-> distance, type |-> "navigation"]

MarkerPool ==
    {PoolMarker("a", 100, 100, 20, 500, 500), PoolMarker("b", 110, 100, 20, 500, 300),
     PoolMarker("c", 300, 300, 10, 0, 300), PoolMarker("d", 100, 100, 0, 500, 100)}

MarkerLists ==
    {ms \in UNION {[1..n -> MarkerPool] : n \in 0..MaxMarkers} :
        \A i, j \in 1..Len(ms) : i /= j => ms[i] /= ms[j]}

TestPoints == {<<100, 100>>, <<105, 100>>, <<125, 100>>, <<300, 309>>, <<0, 0>>}

InitHit ==
    /\ state = [selectedTargetId |-> NULL, setFromClickMode |-> FALSE,
                originalTargetOverrides |-> EmptyMap, editedTargetOverrides |-> EmptyMap,
                originalTargetHidden |-> {}, editedTargetHidden |-> {}]
    /\ nav = NullObj
    /\ projector = NullObj
    /\ navRenderer = NullObj
    /\ \E ms \in MarkerLists :
          /\ hitTester = [markers |-> HitSetMarkers(ms)]
          /\ last = [op |-> "setMarkers", passed |-> ms]
    /\ pending = 0
    /\ viewer = InitViewer
    /\ db = SeedDb

\* hitTester.setMarkers(markers)
SetMarkers ==
    \E ms \in MarkerLists :
        /\ hitTester' = [markers |-> HitSetMarkers(ms)]
        /\ last' = [op |-> "setMarkers", passed |-> ms]
        /\ UNCHANGED <<state, nav, projector, navRenderer, pending, viewer, db>>

\* hitTester.testPoint(screenX, screenY)
TestPoint ==
    \E pt \in TestPoints :
        /\ last' = [op |-> "testPoint", passed |-> last.passed, point |-> pt,
                    result |-> testPoint(hitTester.markers, pt[1], pt[2])]
        /\ UNCHANGED <<state, nav, projector, hitTester, navRenderer, pending, viewer, db>>

NextHit ==
    \/ SetMarkers
    \/ TestPoint

SpecHit == InitHit /\ [][NextHit]_vars

\* the markers of the list passed to the latest setMarkers whose hit ellipse
\* contains the point last tested
Containing ==
    {i \in 1..Len(last.passed) :
        isPointInMarker(last.point[1], last.point[2], last.passed[i])}

\* C12: testPoint(x, y) returns, among all markers passed to the latest
\* setMarkers whose hit ellipse contains (x, y), one with the smallest
\* distance value (the nearest wins when markers overlap); it returns null
\* only when no marker contains the point.
C12_NearestContainingWins ==
    last.op = "testPoint" =>
        /\ last.result = NullObj <=> Containing = {}
        /\ last.result /= NullObj =>
               \E i \in Containing :
                   /\ last.passed[i] = last.result
                   /\ \A j \in Containing :
                          last.result.distance <= last.passed[j].distance

\* two overlapping markers contain the point and the one passed second, the
\* nearer, is returned
C12_OverlapNearerPassedLater ==
    /\ last.op = "testPoint"
    /\ Len(last.passed) >= 2
    /\ {1, 2} \subseteq Containing
    /\ last.passed[2].distance < last.passed[1].distance
    /\ last.result = last.passed[2]

(***************************************************************************)
(* renderer.js: what render() draws for the navigation markers it holds    *)
(***************************************************************************)
\* renderMarker(marker) and renderNavigationMarker: the marker's shape is
\* drawn at globalAlpha (in hundredths), the red X on top when isHidden
renderMarker(r, marker) ==
    [id |-> marker.id, isHovered |-> r.hoveredMarkerId = marker.id,
     isNearest |-> r.nearestMarkerId = marker.id,
     isCursorNearest |-> r.cursorNearestMarkerId = marker.id,
     globalAlpha |-> IF marker.isHidden THEN 35 ELSE 100,
     disabledMark |-> marker.isHidden]

\* render(): one drawing per marker of this.markers
render(r) == {renderMarker(r, r.markers[i]) : i \in 1..Len(r.markers)}

\* the targets that are hidden and that the last frame's camera projects
\* inside the view
HiddenInView ==
    {i \in 1..Len(nav.targets) :
        /\ isTargetHidden(state, nav.targets[i].id)
        /\ nav.currentFov > HIDE_ARROWS_FOV
        /\ projectTarget(nav.cameraConfig, projector.cameraConfig, nav.targets[i],
                         nav.currentYaw, nav.currentPitch, nav.currentFov) /= NullObj}

\* the marker list holds a marker of that id flagged hidden
HeldHidden(ms, id) == \E k \in 1..Len(ms) : ms[k].id = id /\ ms[k].isHidden

\* C13: a hidden target is not dropped from the overlay: whenever a hidden
\* target projects inside the view (and fov is above the hide threshold), it
\* is in the marker list given to the renderer and hit tester with
\* isHidden = true, so it is drawn (dimmed, with the disabled mark) and a
\* Normal-mode click whose hit test returns it still reports it via
\* onTargetSelect.
C13_HiddenTargetKept ==
    /\ Updated =>
           \A i \in HiddenInView :
               /\ HeldHidden(navRenderer.markers, nav.targets[i].id)
               /\ HeldHidden(hitTester.markers, nav.targets[i].id)
               /\ \E d \in render(navRenderer) :
                      d.id = nav.targets[i].id /\ d.globalAlpha < 100 /\ d.disabledMark
    /\ (last.op = "handleClick" /\ last.ran /\ ~last.setFromClickMode
           /\ ClickHit /= NullObj /\ ClickHit.type = "navigation" /\ ClickHit.isHidden) =>
           last.calls = <<[cb |-> "onTargetSelect", id |-> ClickHit.id]>>

\* a click on the marker of a hidden target, still drawn dimmed and crossed,
\* selects that target
C13_HiddenMarkerClicked ==
    /\ last.op = "handleClick"
    /\ last.ran
    /\ ~last.setFromClickMode
    /\ ClickHit /= NullObj
    /\ ClickHit.isHidden
    /\ isTargetHidden(state, ClickHit.id)
    /\ state.selectedTargetId = ClickHit.id
    /\ \E d \in render(navRenderer) : d.id = ClickHit.id /\ d.globalAlpha = 35 /\ d.disabledMark

(***************************************************************************)
(* navigator.js called directly, once initNavigator has run: the camera    *)
(* config can be set, replaced and taken away (setCameraConfig(null))      *)
(* between frames.                                                         *)
(***************************************************************************)
CameraConfigs == {Camera, NullObj}

InitNavigatorReady ==
    /\ state = [selectedTargetId |-> NULL, setFromClickMode |-> FALSE,
                originalTargetOverrides |-> EmptyMap, editedTargetOverrides |-> EmptyMap,
                originalTargetHidden |-> {}, editedTargetHidden |-> {}]
    /\ nav = initNavigator(
                 [overlayCanvas |-> FALSE, cameraConfig |-> NullObj, targets |-> <<>>,
                  nearbyPhotos |-> <<>>, nearbyPreviewEnabled |-> FALSE,
                  onNearbyClickCallback |-> NULL, nearestTargetId |-> NULL,
                  cursorNearestTargetId |-> NULL, mouseX |-> 0, mouseY |-> 0,
                  hoveredId |-> NULL, currentYaw |-> 0, currentPitch |-> 0,
                  currentFov |-> 75, onTargetSelectCallback |-> FALSE,
                  onSetFromClickCallback |-> FALSE])
    /\ projector = NewProjector
    /\ hitTester = NewHitTester
    /\ navRenderer = NewRenderer
    /\ last = Other
    /\ pending = 0
    /\ viewer = InitViewer
    /\ db = SeedDb

\* setCameraConfig(config): the module's config and the projector's
SetCameraConfig ==
    \E config \in CameraConfigs :
        /\ Handler
        /\ nav' = setCameraConfig(nav, config)
        /\ projector' = IF projector = NullObj THEN projector
                        ELSE [projector EXCEPT !.cameraConfig = config]
        /\ last' = Other
        /\ UNCHANGED <<state, hitTester, navRenderer, viewer, db>>

\* setTargets(newTargets)
SetTargets ==
    \E metadata \in Metadatas :
        /\ Handler
        /\ nav' = setTargets(nav, state, projector, metadata.targets)
        /\ last' = Other
        /\ UNCHANGED <<state, projector, hitTester, navRenderer, viewer, db>>

NextNavigator ==
    \/ SetCameraConfig
    \/ SetTargets
    \/ OnMouseMove
    \/ OnViewerRender

SpecNavigator == InitNavigatorReady /\ [][NextNavigator]_vars

\* C14: when no camera config has been set, update() is a no-op frame: it
\* changes no navigator state (hovered id, cursor-nearest id, hit-tester
\* markers, renderer markers and ground cursor) and does not run past its
\* guard.
C14_NoConfigNoOpFrame ==
    [][(last'.op = "update" /\ nav.cameraConfig = NullObj) =>
          /\ ~last'.ran
          /\ nav'.hoveredId = nav.hoveredId
          /\ nav'.cursorNearestTargetId = nav.cursorNearestTargetId
          /\ hitTester' = hitTester
          /\ navRenderer' = navRenderer]_vars

\* a frame without camera config has left the markers and the hover of the
\* frame before the config was taken away
C14_FrameKeptOverlay ==
    /\ last.op = "update"
    /\ ~last.ran
    /\ nav.cameraConfig = NullObj
    /\ projector /= NullObj
    /\ hitTester.markers /= <<>>
    /\ navRenderer.markers /= <<>>
    /\ nav.hoveredId /= NULL

(***************************************************************************)
(* projector.js on its own: metersToScreen on a point and a camera, then   *)
(* screenToGround on the pixel it returned.  Lengths in cm, angles in      *)
(* degrees.                                                                *)
(***************************************************************************)
PointXs == {0 - 300, 0, 200}
PointYs == {0 - DEFAULT_CAMERA_HEIGHT, 0, 150}
PointZs == {0 - 1000, 0 - 300, 0 - 100, 0 - 10, 0, 400}
Yaws == {0, 20, 180}
Pitches == {0 - 85, 0 - 75, 0 - 30, 0, 30, 75, 85}
Fovs == {10, 45, 75}

\* rotatedZ of metersToScreen: camera-space Z after the yaw rotation
rotatedZ(x, z, yaw) == RDiv(x * Sin(yaw) + z * Cos(yaw), 1000)

\* finalZ of metersToScreen: camera-space Z after the yaw and the pitch rotation
finalZ(x, y, z, yaw, pitch) ==
    RDiv(y * Sin(-pitch) + rotatedZ(x, z, yaw) * Cos(-pitch), 1000)

InitProjector ==
    /\ state = [selectedTargetId |-> NULL, setFromClickMode |-> FALSE,
                originalTargetOverrides |-> EmptyMap, editedTargetOverrides |-> EmptyMap,
                originalTargetHidden |-> {}, editedTargetHidden |-> {}]
    /\ nav = NullObj
    /\ projector = NewProjector
    /\ hitTester = NullObj
    /\ navRenderer = NullObj
    /\ \E x \in PointXs, y \in PointYs, z \in PointZs, yaw \in Yaws, pitch \in Pitches, fov \in Fovs :
          last = [op |-> "point", x |-> x, y |-> y, z |-> z,
                  yaw |-> yaw, pitch |-> pitch, fov |-> fov]
    /\ pending = 0
    /\ viewer = InitViewer
    /\ db = SeedDb

\* metersToScreen(x, y, z, yaw, pitch, fov)
MetersToScreen ==
    /\ last.op = "point"
    /\ last' = [op |-> "metersToScreen", x |-> last.x, y |-> last.y, z |-> last.z,
                yaw |-> last.yaw, pitch |-> last.pitch, fov |-> last.fov,
                result |-> metersToScreen(last.x, last.y, last.z, last.yaw, last.pitch, last.fov)]
    /\ UNCHANGED <<state, nav, projector, hitTester, navRenderer, pending, viewer, db>>

\* screenToGround(screenX, screenY, yaw, pitch, fov) on the pixel metersToScreen
\* returned for a visible point, with the same camera
ScreenToGround ==
    /\ last.op = "metersToScreen"
    /\ last.result.visible
    /\ last' = [op |-> "screenToGround", x |-> last.x, y |-> last.y, z |-> last.z,
                yaw |-> last.yaw, pitch |-> last.pitch, fov |-> last.fov,
                result |-> last.result,
                ground |-> screenToGround(projector.cameraConfig, last.result.screenX,
                                          last.result.screenY, last.yaw, last.pitch, last.fov)]
    /\ UNCHANGED <<state, nav, projector, hitTester, navRenderer, pending, viewer, db>>

NextProjector ==
    \/ MetersToScreen
    \/ ScreenToGround

SpecProjector == InitProjector /\ [][NextProjector]_vars

\* C15: metersToScreen returns distance = sqrt(x^2 + y^2 + z^2) for every
\* input point, the points it reports with visible = false included.
C15_DistanceForEveryInput ==
    last.op = "metersToScreen" =>
        last.result.distance = Hypot3(last.x, last.y, last.z)

\* a point behind the camera after the yaw rotation comes back with distance 0
C15_BehindCameraDistanceZero ==
    /\ last.op = "metersToScreen"
    /\ rotatedZ(last.x, last.z, last.yaw) >= 0
    /\ ~last.result.visible
    /\ last.result.distance = 0
    /\ Hypot3(last.x, last.y, last.z) > 0

\* C16: metersToScreen never reports visible = true for a point whose
\* camera-space Z after both the yaw and the pitch rotation is non-negative.
C16_VisibleOnlyInFront ==
    (last.op = "metersToScreen" /\ last.result.visible) =>
        finalZ(last.x, last.y, last.z, last.yaw, last.pitch) < 0

\* a point in front after the yaw rotation and behind the image plane after
\* the pitch rotation is reported visible
C16_VisibleBehindImagePlane ==
    /\ last.op = "metersToScreen"
    /\ last.result.visible
    /\ rotatedZ(last.x, last.z, last.yaw) < 0
    /\ finalZ(last.x, last.y, last.z, last.yaw, last.pitch) > 0

\* the error the fixed-point round trip is allowed, in cm
RoundTripTolerance == 10

\* C17: for a ground point (x, z) with z < 0 and any (yaw, pitch, fov),
\* metersToScreen followed by screenToGround on the y = -cameraHeight plane
\* recovers (x, z) within tolerance.
C17_RoundTripRecovers ==
    (/\ last.op = "screenToGround"
     /\ last.y = 0 - ProjCameraHeight(projector.cameraConfig)
     /\ last.z < 0) =>
        /\ last.ground /= NullObj
        /\ Abs(last.ground.x - last.x) <= RoundTripTolerance
        /\ Abs(last.ground.z - last.z) <= RoundTripTolerance

\* a ground point with z < 0 that metersToScreen reports visible from behind
\* the image plane: screenToGround finds no ground under its pixel
C17_MirroredPointLost ==
    /\ last.op = "screenToGround"
    /\ last.y = 0 - ProjCameraHeight(projector.cameraConfig)
    /\ last.z < 0
    /\ last.result.visible
    /\ finalZ(last.x, last.y, last.z, last.yaw, last.pitch) > 0
    /\ last.ground = NullObj

(***************************************************************************)
(* db/queries.js and routes/calibration.js: the targets table behind       *)
(* POST /api/v1/targets and DELETE /api/v1/targets/:sourceId/:targetId.    *)
(* A route is one synchronous step; it returns the status and the database *)
(* it leaves.                                                              *)
(***************************************************************************)
\* the ids a request can carry: NULL is a missing field, "px" names no photo
RequestIds == {NULL, "p1", "p2", "p3", "q1", "px"}

\* getPhotoById(id): the row, or NullObj for undefined
getPhotoById(d, id) == IF id \in DOMAIN d.photos THEN d.photos[id] ELSE NullObj

TargetsOfPair(d, sourceId, targetId) ==
    {r \in d.targets : r.source_id = sourceId /\ r.target_id = targetId}

\* getTargetByPair(sourceId, targetId): a row, or NullObj for undefined
getTargetByPair(d, sourceId, targetId) ==
    IF TargetsOfPair(d, sourceId, targetId) = {} THEN NullObj
    ELSE CHOOSE r \in TargetsOfPair(d, sourceId, targetId) : TRUE

\* a faulty insertTarget: the row keeps the column default is_original = 1
insertTargetAsOriginal(d, sourceId, targetId, distance_m, bearing_deg) ==
    IF TargetsOfPair(d, sourceId, targetId) /= {}
    THEN [db |-> d, changes |-> 0]
    ELSE [db |-> [d EXCEPT !.targets = @ \cup {TargetRow(sourceId, targetId, distance_m, bearing_deg, 0, 1)}],
          changes |-> 1]

\* insertTarget(sourceId, targetId, distanceM, bearingDeg): INSERT ... VALUES
\* (?, ?, ?, ?, 0, 0); the primary key (source_id, target_id) refuses a second
\* row of a pair (the statement throws, nothing is written)
insertTarget(d, sourceId, targetId, distance_m, bearing_deg) ==
    IF TargetsOfPair(d, sourceId, targetId) /= {}
    THEN [db |-> d, changes |-> 0]
    ELSE [db |-> [d EXCEPT !.targets = @ \cup {TargetRow(sourceId, targetId, distance_m, bearing_deg, 0, 0)}],
          changes |-> 1]

\* deleteTarget(sourceId, targetId): DELETE ... AND is_original = 0
deleteTarget(d, sourceId, targetId) ==
    [db |-> [d EXCEPT !.targets = @ \ {r \in TargetsOfPair(d, sourceId, targetId) : r.is_original = 0}],
     changes |-> Cardinality({r \in TargetsOfPair(d, sourceId, targetId) : r.is_original = 0})]

\* the haversine distance of the route, rounded to two decimals, for photos
\* n ten-thousandths of a degree apart on the seeded line (lat and lon change
\* together)
HaversineTab == <<1473, 2945, 4418>>

distanceM(sourcePhoto, targetPhoto) ==
    IF sourcePhoto.lat = targetPhoto.lat THEN 0
    ELSE HaversineTab[Abs(targetPhoto.lat - sourcePhoto.lat)]

\* the initial bearing of the route, rounded to two decimals, on the seeded line
bearingDegOf(sourcePhoto, targetPhoto) ==
    IF sourcePhoto.lat = targetPhoto.lat THEN 0
    ELSE IF targetPhoto.lat < sourcePhoto.lat THEN 22096 ELSE 4096

\* POST /api/v1/targets from the insert on
postTargetInsert(inserted) ==
    IF inserted.changes = 0 THEN [status |-> 500, db |-> inserted.db]
    ELSE [status |-> 201, db |-> inserted.db]

\* POST /api/v1/targets with body { source_id, target_id }
postTarget(d, source_id, target_id) ==
    IF source_id = NULL \/ target_id = NULL THEN [status |-> 400, db |-> d]
    ELSE IF source_id = target_id THEN [status |-> 400, db |-> d]
    ELSE IF getPhotoById(d, source_id) = NullObj THEN [status |-> 404, db |-> d]
    ELSE IF getPhotoById(d, target_id) = NullObj THEN [status |-> 404, db |-> d]
    ELSE IF getPhotoById(d, source_id).project_id /= getPhotoById(d, target_id).project_id
    THEN [status |-> 400, db |-> d]
    ELSE IF getTargetByPair(d, source_id, target_id) /= NullObj THEN [status |-> 409, db |-> d]
    ELSE postTargetInsert(
             insertTarget(d, source_id, target_id,
                          distanceM(getPhotoById(d, source_id), getPhotoById(d, target_id)),
                          bearingDegOf(getPhotoById(d, source_id), getPhotoById(d, target_id))))

\* a faulty DELETE route: the is_original test is left to the statement
deleteTargetRouteUnchecked(d, sourceId, targetId) ==
    IF getTargetByPair(d, sourceId, targetId) = NullObj THEN [status |-> 404, db |-> d]
    ELSE IF deleteTarget(d, sourceId, targetId).changes = 0 THEN [status |-> 500, db |-> d]
    ELSE [status |-> 200, db |-> deleteTarget(d, sourceId, targetId).db]

\* DELETE /api/v1/targets/:sourceId/:targetId
deleteTargetRoute(d, sourceId, targetId) ==
    IF getTargetByPair(d, sourceId, targetId) = NullObj THEN [status |-> 404, db |-> d]
    ELSE IF getTargetByPair(d, sourceId, targetId).is_original /= 0 THEN [status |-> 400, db |-> d]
    ELSE IF deleteTarget(d, sourceId, targetId).changes = 0 THEN [status |-> 500, db |-> d]
    ELSE [status |-> 200, db |-> deleteTarget(d, sourceId, targetId).db]

\* last keeps the request, the status answered, the table before the request
\* and the pairs created through POST so far
InitTargets ==
    /\ state = [selectedTargetId |-> NULL, setFromClickMode |-> FALSE,
                originalTargetOverrides |-> EmptyMap, editedTargetOverrides |-> EmptyMap,
                originalTargetHidden |-> {}, editedTargetHidden |-> {}]
    /\ nav = NullObj
    /\ projector = NullObj
    /\ hitTester = NullObj
    /\ navRenderer = NullObj
    /\ last = [op |-> "listen", source_id |-> NULL, target_id |-> NULL, status |-> 0,
               before |-> SeedTargets, posted |-> {}]
    /\ pending = 0
    /\ viewer = InitViewer
    /\ db = SeedDb

PostTarget ==
    \E source_id \in RequestIds, target_id \in RequestIds :
        /\ db' = postTarget(db, source_id, target_id).db
        /\ last' = [op |-> "POST", source_id |-> source_id, target_id |-> target_id,
                    status |-> postTarget(db, source_id, target_id).status,
                    before |-> db.targets,
                    posted |-> IF postTarget(db, source_id, target_id).status = 201
                               THEN last.posted \cup {<<source_id, target_id>>}
                               ELSE last.posted]
        /\ UNCHANGED <<state, nav, projector, hitTester, navRenderer, pending, viewer>>

DeleteTarget ==
    \E sourceId \in RequestIds \ {NULL}, targetId \in RequestIds \ {NULL} :
        /\ db' = deleteTargetRoute(db, sourceId, targetId).db
        /\ last' = [op |-> "DELETE", source_id |-> sourceId, target_id |-> targetId,
                    status |-> deleteTargetRoute(db, sourceId, targetId).status,
                    before |-> db.targets, posted |-> last.posted]
        /\ UNCHANGED <<state, nav, projector, hitTester, navRenderer, pending, viewer>>

NextTargets ==
    \/ PostTarget
    \/ DeleteTarget

SpecTargets == InitTargets /\ [][NextTargets]_vars

\* the rows of a pair in a table
RowsOf(rows, sourceId, targetId) ==
    {r \in rows : r.source_id = sourceId /\ r.target_id = targetId}

\* C18: no sequence of API calls removes an original target: DELETE on a
\* target whose is_original flag is set answers 400 and leaves the row in
\* place, only targets created through POST can be deleted, and deleting a
\* pair that does not exist answers 404.
C18_OriginalTargetsStay ==
    /\ \A r \in SeedTargets : r.is_original = 1 => r \in db.targets
    /\ last.op = "DELETE" =>
          /\ RowsOf(last.before, last.source_id, last.target_id) = {} =>
                (last.status = 404 /\ db.targets = last.before)
          /\ (\E r \in RowsOf(last.before, last.source_id, last.target_id) : r.is_original = 1) =>
                (last.status = 400 /\ db.targets = last.before)
          /\ db.targets /= last.before =>
                /\ last.status = 200
                /\ <<last.source_id, last.target_id>> \in last.posted
                /\ db.targets = last.before \ RowsOf(last.before, last.source_id, last.target_id)

\* an original target refused with 400 after a target created through POST
\* was deleted
C18_OriginalRefusedPostedDeleted ==
    /\ last.op = "DELETE"
    /\ last.status = 400
    /\ \E r \in db.targets :
          r.source_id = last.source_id /\ r.target_id = last.target_id /\ r.is_original = 1
    /\ \E p \in last.posted : RowsOf(db.targets, p[1], p[2]) = {}

\* C19: POST /api/v1/targets keeps at most one connection per (source,
\* target) pair: a POST for a pair that already exists answers 409 and
\* leaves the targets table unchanged, a POST with source equal to target
\* answers 400, and every row it creates has is_original = 0 and is_next = 0.
C19_OneConnectionPerPair ==
    /\ \A r1 \in db.targets, r2 \in db.targets :
          (r1.source_id = r2.source_id /\ r1.target_id = r2.target_id) => r1 = r2
    /\ last.op = "POST" =>
          /\ RowsOf(last.before, last.source_id, last.target_id) /= {} =>
                (last.status = 409 /\ db.targets = last.before)
          /\ (last.source_id /= NULL /\ last.source_id = last.target_id) =>
                (last.status = 400 /\ db.targets = last.before)
          /\ \A r \in db.targets \ last.before : r.is_original = 0 /\ r.is_next = 0
          /\ last.status = 201 =>
                /\ Cardinality(db.targets \ last.before) = 1
                /\ last.before \subseteq db.targets

\* a second POST of a pair created through POST is answered 409
C19_DuplicatePostRefused ==
    /\ last.op = "POST"
    /\ last.status = 409
    /\ <<last.source_id, last.target_id>> \in last.posted
    /\ \E r \in db.targets :
          r.source_id = last.source_id /\ r.target_id = last.target_id /\ r.is_original = 0

(***************************************************************************)
(* routes/calibration.js: the single-field calibration PUT routes, and the *)
(* photo metadata GET that reads the fields back.  A body field is         *)
(* [kind, n]: kind is "number", "NaN", "string", "null" or "undefined",    *)
(* n the number in hundredths.                                             *)
(***************************************************************************)
Number(n) == [kind |-> "number", n |-> n]
NotANumber(kind) == [kind |-> kind, n |-> 0]

\* the bodies sent for a field whose closed range is [min, max]
Bodies(min, max) ==
    {Number(min - 1), Number(min), Number(max), Number(max + 1),
     NotANumber("NaN"), NotANumber("string"), NotANumber("null"), NotANumber("undefined")}

\* the :uuid of a request: a seeded photo, and an id no photo has
RequestUuids == {"p1", "px"}

\* a faulty route: the range is open, its bounds are refused
putPhotoFieldOpenRange(d, uuid, value, field, min, max) ==
    IF value.kind /= "number" THEN [status |-> 400, db |-> d]
    ELSE IF value.n <= min \/ value.n >= max THEN [status |-> 400, db |-> d]
    ELSE IF getPhotoById(d, uuid) = NullObj THEN [status |-> 404, db |-> d]
    ELSE [status |-> 200, db |-> [d EXCEPT !.photos[uuid][field] = value.n]]

\* the body the five routes share: the typeof / NaN test, the range test,
\* the photo lookup, the UPDATE photos SET field = ? WHERE id = ?
putPhotoField(d, uuid, value, field, min, max) ==
    IF value.kind /= "number" THEN [status |-> 400, db |-> d]
    ELSE IF value.n < min \/ value.n > max THEN [status |-> 400, db |-> d]
    ELSE IF getPhotoById(d, uuid) = NullObj THEN [status |-> 404, db |-> d]
    ELSE [status |-> 200, db |-> [d EXCEPT !.photos[uuid][field] = value.n]]

\* PUT /api/v1/photos/:uuid/calibration
putCalibration(d, uuid, mesh_rotation_y) ==
    putPhotoField(d, uuid, mesh_rotation_y, "mesh_rotation_y", 0, 36000)

\* PUT /api/v1/photos/:uuid/rotation-x
putRotationX(d, uuid, mesh_rotation_x) ==
    putPhotoField(d, uuid, mesh_rotation_x, "mesh_rotation_x", 0 - 3000, 3000)

\* PUT /api/v1/photos/:uuid/rotation-z
putRotationZ(d, uuid, mesh_rotation_z) ==
    putPhotoField(d, uuid, mesh_rotation_z, "mesh_rotation_z", 0 - 3000, 3000)

\* PUT /api/v1/photos/:uuid/distance-scale
putDistanceScale(d, uuid, distance_scale) ==
    putPhotoField(d, uuid, distance_scale, "distance_scale", 10, 500)

\* PUT /api/v1/photos/:uuid/marker-scale
putMarkerScale(d, uuid, marker_scale) ==
    putPhotoField(d, uuid, marker_scale, "marker_scale", 10, 500)

\* GET /api/v1/photos/:uuid: the camera object of the photo's row
getPhoto(d, uuid) ==
    IF getPhotoById(d, uuid) = NullObj THEN [status |-> 404, camera |-> NullObj]
    ELSE [status |-> 200,
          camera |-> [mesh_rotation_y |-> getPhotoById(d, uuid).mesh_rotation_y,
                      mesh_rotation_x |-> getPhotoById(d, uuid).mesh_rotation_x,
                      mesh_rotation_z |-> getPhotoById(d, uuid).mesh_rotation_z,
                      distance_scale |-> getPhotoById(d, uuid).distance_scale,
                      marker_scale |-> getPhotoById(d, uuid).marker_scale]]

InitCalibration ==
    /\ state = [selectedTargetId |-> NULL, setFromClickMode |-> FALSE,
                originalTargetOverrides |-> EmptyMap, editedTargetOverrides |-> EmptyMap,
                originalTargetHidden |-> {}, editedTargetHidden |-> {}]
    /\ nav = NullObj
    /\ projector = NullObj
    /\ hitTester = NullObj
    /\ navRenderer = NullObj
    /\ last = [op |-> "listen"]
    /\ pending = 0
    /\ viewer = InitViewer
    /\ db = SeedDb

\* what last keeps of a PUT: the field, the request, the status answered and
\* the photos table before the request
PutRecord(field, uuid, value, response) ==
    [op |-> "PUT", field |-> field, uuid |-> uuid, value |-> value,
     status |-> response.status, before |-> db.photos]

PutCalibration ==
    \E uuid \in RequestUuids, value \in Bodies(0, 36000) :
        /\ db' = putCalibration(db, uuid, value).db
        /\ last' = PutRecord("mesh_rotation_y", uuid, value, putCalibration(db, uuid, value))
        /\ UNCHANGED <<state, nav, projector, hitTester, navRenderer, pending, viewer>>

PutRotationX ==
    \E uuid \in RequestUuids, value \in Bodies(0 - 3000, 3000) :
        /\ db' = putRotationX(db, uuid, value).db
        /\ last' = PutRecord("mesh_rotation_x", uuid, value, putRotationX(db, uuid, value))
        /\ UNCHANGED <<state, nav, projector, hitTester, navRenderer, pending, viewer>>

PutRotationZ ==
    \E uuid \in RequestUuids, value \in Bodies(0 - 3000, 3000) :
        /\ db' = putRotationZ(db, uuid, value).db
        /\ last' = PutRecord("mesh_rotation_z", uuid, value, putRotationZ(db, uuid, value))
        /\ UNCHANGED <<state, nav, projector, hitTester, navRenderer, pending, viewer>>

PutDistanceScale ==
    \E uuid \in RequestUuids, value \in Bodies(10, 500) :
        /\ db' = putDistanceScale(db, uuid, value).db
        /\ last' = PutRecord("distance_scale", uuid, value, putDistanceScale(db, uuid, value))
        /\ UNCHANGED <<state, nav, projector, hitTester, navRenderer, pending, viewer>>

PutMarkerScale ==
    \E uuid \in RequestUuids, value \in Bodies(10, 500) :
        /\ db' = putMarkerScale(db, uuid, value).db
        /\ last' = PutRecord("marker_scale", uuid, value, putMarkerScale(db, uuid, value))
        /\ UNCHANGED <<state, nav, projector, hitTester, navRenderer, pending, viewer>>

\* GET /api/v1/photos/:uuid; last keeps the request before it
GetPhoto ==
    \E uuid \in RequestUuids :
        /\ last.op /= "GET"
        /\ last' = [op |-> "GET", uuid |-> uuid, status |-> getPhoto(db, uuid).status,
                    camera |-> getPhoto(db, uuid).camera, prev |-> last]
        /\ UNCHANGED <<state, nav, projector, hitTester, navRenderer, pending, viewer, db>>

NextCalibration ==
    \/ PutCalibration
    \/ PutRotationX
    \/ PutRotationZ
    \/ PutDistanceScale
    \/ PutMarkerScale
    \/ GetPhoto

SpecCalibration == InitCalibration /\ [][NextCalibration]_vars

\* the closed range stated for each field, in hundredths
StatedRange ==
    [mesh_rotation_y |-> <<0, 36000>>, mesh_rotation_x |-> <<0 - 3000, 3000>>,
     mesh_rotation_z |-> <<0 - 3000, 3000>>, distance_scale |-> <<10, 500>>,
     marker_scale |-> <<10, 500>>]

\* the request in p is a number inside the stated range for a photo that exists
Acceptable(p) ==
    /\ p.value.kind = "number"
    /\ StatedRange[p.field][1] <= p.value.n
    /\ p.value.n <= StatedRange[p.field][2]
    /\ p.uuid \in DOMAIN p.before

\* C20: each single-field calibration PUT stores the value if and only if
\* it is a number inside the closed range and the photo exists; a rejected
\* request (400 or 404) leaves the stored value unchanged, and after an
\* accepted request GET /photos/:uuid returns exactly the value sent.
C20_StoredIffValid ==
    /\ last.op = "PUT" =>
          /\ Acceptable(last) =>
                /\ last.status = 200
                /\ db.photos = [last.before EXCEPT ![last.uuid][last.field] = last.value.n]
          /\ ~Acceptable(last) =>
                /\ last.status \in {400, 404}
                /\ db.photos = last.before
    /\ (last.op = "GET" /\ last.prev.op = "PUT" /\ last.prev.status = 200
           /\ last.uuid = last.prev.uuid) =>
          /\ last.status = 200
          /\ last.camera[last.prev.field] = last.prev.value.n

\* a value on the bound of its range, other than the stored one, was
\* accepted and read back
C20_BoundValueReadBack ==
    /\ last.op = "GET"
    /\ last.prev.op = "PUT"
    /\ last.prev.status = 200
    /\ last.uuid = last.prev.uuid
    /\ last.prev.value.n \in {StatedRange[last.prev.field][1], StatedRange[last.prev.field][2]}
    /\ last.prev.before[last.uuid][last.prev.field] /= last.prev.value.n
    /\ last.camera[last.prev.field] = last.prev.value.n

(***************************************************************************)
(* routes/calibration.js: PUT /api/v1/projects/:slug/batch-calibration.    *)
(* The body gives each of the six fields as [kind, n]; kind "undefined" is *)
(* a field the body does not have.  A project's slug stands for its id.    *)
(***************************************************************************)
BatchFields ==
    {"mesh_rotation_y", "camera_height", "mesh_rotation_x", "mesh_rotation_z",
     "distance_scale", "marker_scale"}

\* the closed range the route tests each field against, in hundredths
BatchRange ==
    [mesh_rotation_y |-> <<0, 36000>>, camera_height |-> <<10, 2000>>,
     mesh_rotation_x |-> <<0 - 3000, 3000>>, mesh_rotation_z |-> <<0 - 3000, 3000>>,
     distance_scale |-> <<10, 500>>, marker_scale |-> <<10, 500>>]

\* what a body gives for a field: nothing, the upper bound of the range, a
\* number above it, a string
BatchValues(field) ==
    {NotANumber("undefined"), Number(BatchRange[field][2]), Number(BatchRange[field][2] + 1),
     NotANumber("string")}

\* the fields in the order the route validates them
BatchFieldOrder ==
    <<"mesh_rotation_y", "camera_height", "mesh_rotation_x", "mesh_rotation_z",
      "distance_scale", "marker_scale">>

\* the :slug of a request: the seeded project, and a slug no project has
RequestSlugs == {"A", "Z"}

Supplied(body, field) == body[field].kind /= "undefined"

\* the typeof / NaN test and the range test of one field
FieldValid(body, field) ==
    /\ body[field].kind = "number"
    /\ body[field].n >= BatchRange[field][1]
    /\ body[field].n <= BatchRange[field][2]

\* getPhotosByProjectSlug(slug): the ids of the project's photos
getPhotosByProjectSlug(d, slug) == {id \in DOMAIN d.photos : d.photos[id].project_id = slug}

\* the batchUpdate... statements the route runs for the fields in fields:
\* UPDATE photos SET field = ? WHERE project_id = (SELECT id ... WHERE slug = ?)
batchUpdate(d, slug, body, fields) ==
    [d EXCEPT !.photos =
        [id \in DOMAIN d.photos |->
            IF d.photos[id].project_id /= slug THEN d.photos[id]
            ELSE [f \in DOMAIN d.photos[id] |->
                     IF f \in fields THEN body[f].n ELSE d.photos[id][f]]]]

\* a faulty route: each field is validated and written in turn, so the
\* fields before the first refused one are already written
batchCalibrationFieldByField(d, slug, body) ==
    IF \A f \in BatchFields : ~Supplied(body, f) THEN [status |-> 400, db |-> d]
    ELSE IF \E f \in BatchFields : Supplied(body, f) /\ ~FieldValid(body, f)
    THEN [status |-> 400,
          db |-> batchUpdate(d, slug, body, {f \in BatchFields : Supplied(body, f) /\ FieldValid(body, f)})]
    ELSE IF getPhotosByProjectSlug(d, slug) = {} THEN [status |-> 404, db |-> d]
    ELSE [status |-> 200,
          db |-> batchUpdate(d, slug, body, {f \in BatchFields : Supplied(body, f)})]

\* PUT /api/v1/projects/:slug/batch-calibration
batchCalibration(d, slug, body) ==
    IF \A f \in BatchFields : ~Supplied(body, f) THEN [status |-> 400, db |-> d]
    ELSE IF \E f \in BatchFields : Supplied(body, f) /\ ~FieldValid(body, f)
    THEN [status |-> 400, db |-> d]
    ELSE IF getPhotosByProjectSlug(d, slug) = {} THEN [status |-> 404, db |-> d]
    ELSE [status |-> 200,
          db |-> batchUpdate(d, slug, body, {f \in BatchFields : Supplied(body, f)})]

\* a body with at most two fields, f1 and f2
BatchBody(f1, v1, f2, v2) ==
    [f \in BatchFields |->
        IF f = f1 THEN v1 ELSE IF f = f2 THEN v2 ELSE NotANumber("undefined")]

PutBatchCalibration ==
    \E slug \in RequestSlugs, i \in 1..6 :
        \E v1 \in BatchValues(BatchFieldOrder[i]), v2 \in BatchValues(BatchFieldOrder[(i % 6) + 1]) :
            /\ db' = batchCalibration(db, slug, BatchBody(BatchFieldOrder[i], v1, BatchFieldOrder[(i % 6) + 1], v2)).db
            /\ last' = [op |-> "BATCH", slug |-> slug,
                        body |-> BatchBody(BatchFieldOrder[i], v1, BatchFieldOrder[(i % 6) + 1], v2),
                        status |-> batchCalibration(db, slug, BatchBody(BatchFieldOrder[i], v1, BatchFieldOrder[(i % 6) + 1], v2)).status,
                        before |-> db.photos]
            /\ UNCHANGED <<state, nav, projector, hitTester, navRenderer, pending, viewer>>

NextBatch == PutBatchCalibration

SpecBatch == InitCalibration /\ [][NextBatch]_vars

\* C21: batch-calibration validates every supplied field before writing
\* any: if no field is supplied, or any supplied field is non-numeric or out
\* of range, the response is 400 and no photo is modified, even when other
\* supplied fields are valid.
C21_BatchAllOrNothing ==
    (/\ last.op = "BATCH"
     /\ \/ \A f \in BatchFields : ~Supplied(last.body, f)
        \/ \E f \in BatchFields : Supplied(last.body, f) /\ ~FieldValid(last.body, f)) =>
        /\ last.status = 400
        /\ db.photos = last.before

\* a body with one valid field, whose value is not the stored one, and one
\* refused field, sent to a project that has photos
C21_ValidFieldNotWritten ==
    /\ last.op = "BATCH"
    /\ last.status = 400
    /\ getPhotosByProjectSlug(db, last.slug) /= {}
    /\ \E f \in BatchFields, g \in BatchFields :
          /\ FieldValid(last.body, f)
          /\ Supplied(last.body, g) /\ ~FieldValid(last.body, g)
          /\ \E id \in getPhotosByProjectSlug(db, last.slug) : db.photos[id][f] /= last.body[f].n

(***************************************************************************)
(* routes/calibration.js: GET /api/v1/photos/:uuid/nearby, with the POST   *)
(* and DELETE of targets that change what it answers.  The radius is in cm *)
(* (hundredths of a metre).                                                *)
(***************************************************************************)
\* ?radius=: 1 m, 20 m, 100 m, 0, and no radius
QueryRadii == {Number(100), Number(2000), Number(10000), Number(0), NotANumber("undefined")}

\* Number(request.query.radius) || 100
nearbyRadius(q) == IF q.kind /= "number" \/ q.n = 0 THEN 10000 ELSE q.n

\* the photos in ORDER BY sequence_number
PhotoSequence == <<"p1", "p2", "p3", "q1">>

\* the bounding box of the route around photo, tested on the point of p:
\* latOffset = radius / 111320, lonOffset = radius / (111320 * cos(lat))
InBox(photo, p, radius) ==
    /\ Abs(p.lat - photo.lat) * 111320 <= radius * 100
    /\ Abs(p.lon - photo.lon) * 111320 * Cos(RDiv(photo.lat, 10000)) <= radius * 100000

\* a faulty nearbyPhotos statement: the targets of the photo are not left out
nearbyPhotosWithTargets(d, sourceId, radius, id) ==
    /\ id \in DOMAIN d.photos
    /\ d.photos[id].project_id = d.photos[sourceId].project_id
    /\ id /= sourceId
    /\ InBox(d.photos[sourceId], d.photos[id], radius)

\* the WHERE clause of the nearbyPhotos statement, on the photo id
nearbyPhotos(d, sourceId, radius, id) ==
    /\ id \in DOMAIN d.photos
    /\ d.photos[id].project_id = d.photos[sourceId].project_id
    /\ id /= sourceId
    /\ \A t \in d.targets : ~(t.source_id = sourceId /\ t.target_id = id)
    /\ InBox(d.photos[sourceId], d.photos[id], radius)

\* getNearbyPhotos and the map over its rows: the rows among the first k
\* photos of the sequence, each with its distance from the photo
RECURSIVE getNearbyPhotos(_, _, _, _)
getNearbyPhotos(d, sourceId, radius, k) ==
    IF k = 0 THEN <<>>
    ELSE IF nearbyPhotos(d, sourceId, radius, PhotoSequence[k])
    THEN Append(getNearbyPhotos(d, sourceId, radius, k - 1),
                [id |-> PhotoSequence[k],
                 distance |-> distanceM(d.photos[sourceId], d.photos[PhotoSequence[k]])])
    ELSE getNearbyPhotos(d, sourceId, radius, k - 1)

\* photos.filter(p => p.distance <= radius)
RECURSIVE FilterRadius(_, _)
FilterRadius(photos, radius) ==
    IF photos = <<>> THEN <<>>
    ELSE IF photos[Len(photos)].distance <= radius
    THEN Append(FilterRadius(SubSeq(photos, 1, Len(photos) - 1), radius), photos[Len(photos)])
    ELSE FilterRadius(SubSeq(photos, 1, Len(photos) - 1), radius)

\* GET /api/v1/photos/:uuid/nearby?radius=q
getNearby(d, uuid, q) ==
    IF getPhotoById(d, uuid) = NullObj THEN [status |-> 404, photos |-> <<>>]
    ELSE [status |-> 200,
          photos |-> SortByDistance(
                         FilterRadius(getNearbyPhotos(d, uuid, nearbyRadius(q), Len(PhotoSequence)),
                                      nearbyRadius(q)))]

\* the ids of the seeded project's photos
ProjectPhotoIds == {"p1", "p2", "p3"}

\* POST /api/v1/targets between photos of the seeded project
LinkPhotos ==
    \E source_id \in ProjectPhotoIds, target_id \in ProjectPhotoIds :
        /\ db' = postTarget(db, source_id, target_id).db
        /\ last' = [op |-> "POST", source_id |-> source_id, target_id |-> target_id,
                    status |-> postTarget(db, source_id, target_id).status]
        /\ UNCHANGED <<state, nav, projector, hitTester, navRenderer, pending, viewer>>

\* DELETE /api/v1/targets/:sourceId/:targetId between photos of the seeded project
UnlinkPhotos ==
    \E sourceId \in ProjectPhotoIds, targetId \in ProjectPhotoIds :
        /\ db' = deleteTargetRoute(db, sourceId, targetId).db
        /\ last' = [op |-> "DELETE", source_id |-> sourceId, target_id |-> targetId,
                    status |-> deleteTargetRoute(db, sourceId, targetId).status]
        /\ UNCHANGED <<state, nav, projector, hitTester, navRenderer, pending, viewer>>

\* GET /api/v1/photos/:uuid/nearby; last keeps the request before it
GetNearby ==
    \E uuid \in RequestIds \ {NULL}, q \in QueryRadii :
        /\ last.op /= "NEARBY"
        /\ last' = [op |-> "NEARBY", uuid |-> uuid, radius |-> nearbyRadius(q),
                    status |-> getNearby(db, uuid, q).status,
                    photos |-> getNearby(db, uuid, q).photos, prev |-> last]
        /\ UNCHANGED <<state, nav, projector, hitTester, navRenderer, pending, viewer, db>>

NextNearby ==
    \/ LinkPhotos
    \/ UnlinkPhotos
    \/ GetNearby

SpecNearby == InitCalibration /\ [][NextNearby]_vars

\* C22: GET /api/v1/photos/:uuid/nearby never returns the photo itself or a
\* photo that is already a target of it, returns only photos whose distance
\* is at most the radius, in ascending order of distance; once POST
\* /api/v1/targets links a nearby photo it no longer appears in the list.
C22_NearbyExcludesTargets ==
    last.op = "NEARBY" =>
        /\ \A i \in 1..Len(last.photos) :
              /\ last.photos[i].id /= last.uuid
              /\ \A t \in db.targets :
                    ~(t.source_id = last.uuid /\ t.target_id = last.photos[i].id)
              /\ last.photos[i].distance <= last.radius
              /\ last.photos[i].distance = distanceM(db.photos[last.uuid], db.photos[last.photos[i].id])
        /\ \A i \in 1..Len(last.photos), j \in 1..Len(last.photos) :
              i < j => last.photos[i].distance <= last.photos[j].distance
        /\ (last.prev.op = "POST" /\ last.prev.status = 201 /\ last.prev.source_id = last.uuid) =>
              \A i \in 1..Len(last.photos) : last.photos[i].id /= last.prev.target_id

\* the list asked for right after a POST linked a photo inside the radius:
\* the other nearby photo is listed, the linked one is not
C22_LinkedPhotoLeftOut ==
    /\ last.op = "NEARBY"
    /\ last.prev.op = "POST"
    /\ last.prev.status = 201
    /\ last.prev.source_id = last.uuid
    /\ distanceM(db.photos[last.uuid], db.photos[last.prev.target_id]) <= last.radius
    /\ Len(last.photos) >= 1
    /\ \A i \in 1..Len(last.photos) : last.photos[i].id /= last.prev.target_id

(***************************************************************************)
(* The frame at each zoom level around the two thresholds of update():     *)
(* the photo is loaded, nearby photos and their preview are set, the mouse *)
(* moves, clicks arrive, and frames are drawn at the fields of view below. *)
(***************************************************************************)
FrameFovs ==
    {HIDE_ARROWS_FOV - 5, HIDE_ARROWS_FOV, HIDE_ARROWS_FOV + 1, 40,
     SCALE_ARROWS_FOV, SCALE_ARROWS_FOV + 1, 75}

\* onViewerRender(cameraState) looking along the image heading
RenderAtFov ==
    \E fov \in FrameFovs :
        /\ nav' = update(updateCameraState(nav, [yaw |-> 0, pitch |-> 0, fov |-> fov]),
                         [yaw |-> 0, pitch |-> 0, fov |-> fov]).nav
        /\ hitTester' = update(updateCameraState(nav, [yaw |-> 0, pitch |-> 0, fov |-> fov]),
                               [yaw |-> 0, pitch |-> 0, fov |-> fov]).hitTester
        /\ navRenderer' = update(updateCameraState(nav, [yaw |-> 0, pitch |-> 0, fov |-> fov]),
                                 [yaw |-> 0, pitch |-> 0, fov |-> fov]).navRenderer
        /\ last' = [Other EXCEPT !.op = "update",
                                 !.ran = projector /= NullObj /\ navRenderer /= NullObj
                                         /\ nav.cameraConfig /= NullObj]
        /\ pending' = 0
        /\ viewer' = [viewer EXCEPT !.lon = 0, !.lat = 0, !.fov = fov]
        /\ UNCHANGED <<state, projector, db>>

NextFov ==
    \/ StartCalibration
    \/ SetNearbyPhotos
    \/ SetNearbyPreviewMode
    \/ OnMouseMove
    \/ RenderAtFov
    \/ HandleClick

SpecFov == Init /\ [][NextFov]_vars

\* the radius update() must leave on a marker whose projected radius is r
GatedRadius(r, fov) ==
    IF fov <= SCALE_ARROWS_FOV
    THEN RDiv(r * (fov - HIDE_ARROWS_FOV), 10)
    ELSE r

\* the target, or the nearby photo, a marker was projected from
SourceOf(list, id) == list[CHOOSE i \in 1..Len(list) : list[i].id = id]

\* C23: FOV gate in update(): for fov <= 35 both the navigation and the
\* nearby marker lists are empty, so nothing can be hovered or clicked; for
\* 35 < fov <= 45 every marker radius is multiplied by (fov - 35) / 10; for
\* fov > 45 radii are unscaled.
C23_FovGate ==
    /\ (hitTester /= NullObj /\ nav.currentFov <= 35) =>
          /\ hitTester.markers = <<>>
          /\ (last.op = "handleClick" /\ last.ran /\ ~last.setFromClickMode) => last.calls = <<>>
    /\ (last.op = "update" /\ last.ran) =>
          /\ nav.currentFov <= 35 =>
                (navRenderer.markers = <<>> /\ hitTester.markers = <<>> /\ nav.hoveredId = NULL)
          /\ \A i \in 1..Len(navRenderer.markers) :
                navRenderer.markers[i].radius =
                    GatedRadius(projectTarget(nav.cameraConfig, projector.cameraConfig,
                                              SourceOf(nav.targets, navRenderer.markers[i].id),
                                              nav.currentYaw, nav.currentPitch, nav.currentFov).radius,
                                nav.currentFov)
          /\ \A i \in 1..Len(hitTester.markers) :
                hitTester.markers[i].type = "nearby" =>
                    hitTester.markers[i].radius =
                        GatedRadius(projectNearbyPhoto(nav.cameraConfig, projector.cameraConfig,
                                                       SourceOf(nav.nearbyPhotos, hitTester.markers[i].id),
                                                       nav.currentYaw, nav.currentPitch, nav.currentFov).radius,
                                    nav.currentFov)

\* a frame at fov 40, between the two thresholds: a navigation marker is
\* drawn at a radius smaller than its projected one, a nearby marker is hittable
C23_ScaledAtThreshold ==
    /\ last.op = "update"
    /\ last.ran
    /\ nav.currentFov = SCALE_ARROWS_FOV - 5
    /\ Len(navRenderer.markers) >= 1
    /\ navRenderer.markers[1].radius <
          projectTarget(nav.cameraConfig, projector.cameraConfig,
                        SourceOf(nav.targets, navRenderer.markers[1].id),
                        nav.currentYaw, nav.currentPitch, nav.currentFov).radius
    /\ \E i \in 1..Len(hitTester.markers) : hitTester.markers[i].type = "nearby"

(***************************************************************************)
(* The two "nearest" ids of the navigator: nearestTargetId is computed     *)
(* when the targets are set, cursorNearestTargetId on every frame          *)
(***************************************************************************)
\* the step is a frame that passed update()'s guard
FrameRan == last'.op = "update" /\ last'.ran

\* what updateGroundCursor computes for the frame the step has drawn
FrameCursorNearest ==
    updateGroundCursor(nav, nav'.hoveredId, navRenderer'.markers, nav'.currentYaw,
                       nav'.currentPitch, nav'.currentFov).cursorNearestTargetId

\* C24: nearestTargetId is assigned only when targets are loaded through
\* setTargets: a frame (update), a mouse move, a click and setNearbyPhotos
\* all leave it as it was, whereas every frame that has a camera config
\* assigns cursorNearestTargetId the id updateGroundCursor finds for that
\* frame (null over a hovered marker or off the ground).
C24_NearestAssignedBySetTargets ==
    [][/\ (last'.op \in {"update", "handleClick"} \/ OnMouseMove \/ SetNearbyPhotos)
            => nav'.nearestTargetId = nav.nearestTargetId
       /\ FrameRan => nav'.cursorNearestTargetId = FrameCursorNearest]_vars

\* a frame has assigned the cursor's nearest target while the photo's
\* nearest target, a different one, has stayed since setTargets
C24_CursorNearestDiffers ==
    /\ last.op = "update"
    /\ last.ran
    /\ nav.nearestTargetId /= NULL
    /\ nav.cursorNearestTargetId /= NULL
    /\ nav.cursorNearestTargetId /= nav.nearestTargetId
    /\ navRenderer.nearestMarkerId = nav.nearestTargetId

(***************************************************************************)
(* state.js, the dirty tracking: the six scalar calibration values, the    *)
(* override and hidden maps, isDirty, refreshTargets, discardChanges and   *)
(* markSaved.  Client units: rotations in whole degrees, the camera height *)
(* in centimetres, the scales in hundredths.                               *)
(***************************************************************************)
\* the exported state object as the module creates it
NewState ==
    [currentPhotoId |-> NULL,
     originalMeshRotationY |-> NullNum, editedMeshRotationY |-> NullNum,
     originalCameraHeight |-> NullNum, editedCameraHeight |-> NullNum,
     originalMeshRotationX |-> NullNum, editedMeshRotationX |-> NullNum,
     originalMeshRotationZ |-> NullNum, editedMeshRotationZ |-> NullNum,
     originalDistanceScale |-> NullNum, editedDistanceScale |-> NullNum,
     originalMarkerScale |-> NullNum, editedMarkerScale |-> NullNum,
     originalTargetOverrides |-> EmptyMap, editedTargetOverrides |-> EmptyMap,
     originalTargetHidden |-> {}, editedTargetHidden |-> {},
     selectedTargetId |-> NULL, setFromClickMode |-> FALSE]

\* metadata.camera?.field ?? default
CameraValue(camera, field, default) ==
    IF field \in DOMAIN camera THEN Coalesce(camera[field], default) ELSE default

\* loadPhoto(photoId, metadata), the scalar values included
loadPhotoMetadata(s, photoId, metadata) ==
    [loadPhoto(s, metadata.targets) EXCEPT
        !.currentPhotoId = photoId,
        !.originalMeshRotationY = CameraValue(metadata.camera, "mesh_rotation_y", 180),
        !.editedMeshRotationY = CameraValue(metadata.camera, "mesh_rotation_y", 180),
        !.originalCameraHeight = CameraValue(metadata.camera, "height", 250),
        !.editedCameraHeight = CameraValue(metadata.camera, "height", 250),
        !.originalMeshRotationX = CameraValue(metadata.camera, "mesh_rotation_x", 0),
        !.editedMeshRotationX = CameraValue(metadata.camera, "mesh_rotation_x", 0),
        !.originalMeshRotationZ = CameraValue(metadata.camera, "mesh_rotation_z", 0),
        !.editedMeshRotationZ = CameraValue(metadata.camera, "mesh_rotation_z", 0),
        !.originalDistanceScale = CameraValue(metadata.camera, "distance_scale", 100),
        !.editedDistanceScale = CameraValue(metadata.camera, "distance_scale", 100),
        !.originalMarkerScale = CameraValue(metadata.camera, "marker_scale", 100),
        !.editedMarkerScale = CameraValue(metadata.camera, "marker_scale", 100)]

\* refreshTargets(metadata): the four maps are rebuilt from the fresh
\* metadata, the scalar values stay
refreshTargets(s, metadata) ==
    [s EXCEPT !.originalTargetOverrides = MetadataOverrides(metadata.targets),
              !.editedTargetOverrides = MetadataOverrides(metadata.targets),
              !.originalTargetHidden = MetadataHidden(metadata.targets),
              !.editedTargetHidden = MetadataHidden(metadata.targets)]

\* state.editedX !== null && state.editedX !== state.originalX
ScalarChanged(edited, original) == edited /= NullNum /\ edited /= original

\* original?.bearing ?? null, original?.distance ?? null, original?.height ?? 0
OriginalOrNone(s, targetId) ==
    IF MapHas(s.originalTargetOverrides, targetId)
    THEN [bearing |-> s.originalTargetOverrides[targetId].bearing,
          distance |-> s.originalTargetOverrides[targetId].distance,
          height |-> Coalesce(s.originalTargetOverrides[targetId].height, 0)]
    ELSE [bearing |-> NullNum, distance |-> NullNum, height |-> 0]

\* the test isDirty and handleSave apply to an entry of editedTargetOverrides
OverrideChanged(s, targetId) ==
    \/ s.editedTargetOverrides[targetId].bearing /= OriginalOrNone(s, targetId).bearing
    \/ s.editedTargetOverrides[targetId].distance /= OriginalOrNone(s, targetId).distance
    \/ Coalesce(s.editedTargetOverrides[targetId].height, 0) /= OriginalOrNone(s, targetId).height

\* isDirty()
isDirty(s) ==
    \/ ScalarChanged(s.editedMeshRotationY, s.originalMeshRotationY)
    \/ ScalarChanged(s.editedCameraHeight, s.originalCameraHeight)
    \/ ScalarChanged(s.editedMeshRotationX, s.originalMeshRotationX)
    \/ ScalarChanged(s.editedMeshRotationZ, s.originalMeshRotationZ)
    \/ ScalarChanged(s.editedDistanceScale, s.originalDistanceScale)
    \/ ScalarChanged(s.editedMarkerScale, s.originalMarkerScale)
    \/ \E targetId \in DOMAIN s.editedTargetOverrides : OverrideChanged(s, targetId)
    \/ s.editedTargetHidden \ s.originalTargetHidden /= {}
    \/ s.originalTargetHidden \ s.editedTargetHidden /= {}

setMeshRotationY(s, value) == [s EXCEPT !.editedMeshRotationY = value]
setCameraHeight(s, value) == [s EXCEPT !.editedCameraHeight = value]
setMeshRotationX(s, value) == [s EXCEPT !.editedMeshRotationX = value]
setMeshRotationZ(s, value) == [s EXCEPT !.editedMeshRotationZ = value]
setDistanceScale(s, value) == [s EXCEPT !.editedDistanceScale = value]
setMarkerScale(s, value) == [s EXCEPT !.editedMarkerScale = value]

\* setTargetOverrideHeight(targetId, height): only an existing edit is changed
setTargetOverrideHeight(s, targetId, height) ==
    IF MapHas(s.editedTargetOverrides, targetId)
    THEN [s EXCEPT !.editedTargetOverrides[targetId].height = height]
    ELSE s

\* a faulty discard: the hidden flags are left as edited
discardChangesKeepingHidden(s) ==
    [s EXCEPT !.editedMeshRotationY = s.originalMeshRotationY,
              !.editedCameraHeight = s.originalCameraHeight,
              !.editedMeshRotationX = s.originalMeshRotationX,
              !.editedMeshRotationZ = s.originalMeshRotationZ,
              !.editedDistanceScale = s.originalDistanceScale,
              !.editedMarkerScale = s.originalMarkerScale,
              !.editedTargetOverrides = s.originalTargetOverrides,
              !.setFromClickMode = FALSE]

\* discardChanges()
discardChanges(s) ==
    [s EXCEPT !.editedMeshRotationY = s.originalMeshRotationY,
              !.editedCameraHeight = s.originalCameraHeight,
              !.editedMeshRotationX = s.originalMeshRotationX,
              !.editedMeshRotationZ = s.originalMeshRotationZ,
              !.editedDistanceScale = s.originalDistanceScale,
              !.editedMarkerScale = s.originalMarkerScale,
              !.editedTargetOverrides = s.originalTargetOverrides,
              !.editedTargetHidden = s.originalTargetHidden,
              !.setFromClickMode = FALSE]

\* edited.bearing !== null && edited.distance !== null
IsSet(o) == o.bearing /= NullNum /\ o.distance /= NullNum

\* edited.bearing === null && edited.distance === null
IsClearedEdit(o) == o.bearing = NullNum /\ o.distance = NullNum

\* markSaved()
markSaved(s) ==
    [s EXCEPT !.originalMeshRotationY = s.editedMeshRotationY,
              !.originalCameraHeight = s.editedCameraHeight,
              !.originalMeshRotationX = s.editedMeshRotationX,
              !.originalMeshRotationZ = s.editedMeshRotationZ,
              !.originalDistanceScale = s.editedDistanceScale,
              !.originalMarkerScale = s.editedMarkerScale,
              !.originalTargetOverrides =
                  [id \in {k \in DOMAIN s.editedTargetOverrides : IsSet(s.editedTargetOverrides[k])}
                      |-> s.editedTargetOverrides[id]],
              !.editedTargetOverrides =
                  [id \in {k \in DOMAIN s.editedTargetOverrides :
                              ~IsClearedEdit(s.editedTargetOverrides[k])}
                      |-> s.editedTargetOverrides[id]],
              !.originalTargetHidden = s.editedTargetHidden]

(***************************************************************************)
(* The state store driven by the panel: loads, refreshes, edits, discards  *)
(* and saves in any order                                                  *)
(***************************************************************************)
\* the most edits the operator makes on one loaded photo
MaxEdits == 3

\* the metadata the API answers with: the photo's two targets, or target 1
\* alone once the connection to target 2 is deleted, with or without saved
\* calibration of the targets
SessionMetadatas ==
    {[camera |-> Camera, targets |-> TargetList(n, saved)] : n \in {1, NumTargets}, saved \in BOOLEAN}

\* the slider values of the panel
RotationValues == {90, 180}
HeightValues == {165}
TiltValues == {5}
ScaleValues == {120}
OverrideHeights == {150}

InitStore ==
    /\ state = NewState
    /\ nav = NullObj
    /\ projector = NullObj
    /\ hitTester = NullObj
    /\ navRenderer = NullObj
    /\ last = [op |-> "module", dirty |-> FALSE, before |-> NullObj, metadata |-> NullObj]
    /\ pending = 0
    /\ viewer = InitViewer
    /\ db = SeedDb

\* a call of the store: last keeps the call, isDirty() before it and, for
\* refreshTargets, the state before it and the fresh metadata
Call(op, s) ==
    /\ state' = s
    /\ last' = [op |-> op, dirty |-> isDirty(state), before |-> NullObj, metadata |-> NullObj]
    /\ UNCHANGED <<nav, projector, hitTester, navRenderer, viewer, db>>

\* an edit made in the panel
Edit(op, s) ==
    /\ pending < MaxEdits
    /\ pending' = pending + 1
    /\ Call(op, s)

LoadPhoto ==
    \E metadata \in SessionMetadatas :
        /\ pending' = 0
        /\ Call("loadPhoto", loadPhotoMetadata(state, "p1", metadata))

RefreshTargets ==
    \E metadata \in SessionMetadatas :
        /\ state.currentPhotoId /= NULL
        /\ state' = refreshTargets(state, metadata)
        /\ last' = [op |-> "refreshTargets", dirty |-> isDirty(state), before |-> state,
                    metadata |-> metadata]
        /\ UNCHANGED <<nav, projector, hitTester, navRenderer, viewer, db, pending>>

SetMeshRotationY == \E value \in RotationValues : Edit("setMeshRotationY", setMeshRotationY(state, value))

SetCameraHeight == \E value \in HeightValues : Edit("setCameraHeight", setCameraHeight(state, value))

SetMeshRotationX == \E value \in TiltValues : Edit("setMeshRotationX", setMeshRotationX(state, value))

SetMeshRotationZ == \E value \in TiltValues : Edit("setMeshRotationZ", setMeshRotationZ(state, value))

SetDistanceScale == \E value \in ScaleValues : Edit("setDistanceScale", setDistanceScale(state, value))

SetMarkerScale == \E value \in ScaleValues : Edit("setMarkerScale", setMarkerScale(state, value))

EditTargetOverride ==
    \E targetId \in EditIds, o \in PanelOverrides :
        Edit("setTargetOverride", setTargetOverride(state, targetId, o.bearing, o.distance, o.height))

EditTargetOverrideHeight ==
    \E targetId \in EditIds, height \in OverrideHeights :
        Edit("setTargetOverrideHeight", setTargetOverrideHeight(state, targetId, height))

EditClearTargetOverride ==
    \E targetId \in EditIds : Edit("clearTargetOverrideEdit", clearTargetOverrideEdit(state, targetId))

EditTargetHidden ==
    \E targetId \in EditIds, hidden \in BOOLEAN :
        Edit("setTargetHidden", setTargetHidden(state, targetId, hidden))

DiscardChanges == pending' = pending /\ Call("discardChanges", discardChanges(state))

MarkSaved == pending' = pending /\ Call("markSaved", markSaved(state))

NextStore ==
    \/ LoadPhoto
    \/ RefreshTargets
    \/ SetMeshRotationY
    \/ SetCameraHeight
    \/ SetMeshRotationX
    \/ SetMeshRotationZ
    \/ SetDistanceScale
    \/ SetMarkerScale
    \/ EditTargetOverride
    \/ EditTargetOverrideHeight
    \/ EditClearTargetOverride
    \/ EditTargetHidden
    \/ DiscardChanges
    \/ MarkSaved

SpecStore == InitStore /\ [][NextStore]_vars

\* the ids of the targets a metadata lists
TargetIdsOf(metadata) == {metadata.targets[k].id : k \in 1..Len(metadata.targets)}

\* C25: refreshTargets loses no in-progress calibration work: the edited
\* scalar values stay, the unsaved override and hidden edits of the targets
\* the fresh metadata still lists stay, and a state that was dirty before
\* refreshTargets is dirty after it.
C25_RefreshKeepsEdits ==
    (last.op = "refreshTargets" /\ last.dirty) => isDirty(state)

\* target 1 still exists, its override was edited and not saved, and after
\* refreshTargets the edit is gone and isDirty() is false
C25_RefreshDropsOverrideEdit ==
    /\ last.op = "refreshTargets"
    /\ last.dirty
    /\ TargetName[1] \in TargetIdsOf(last.metadata)
    /\ MapHas(last.before.editedTargetOverrides, TargetName[1])
    /\ OverrideChanged(last.before, TargetName[1])
    /\ ~MapHas(state.editedTargetOverrides, TargetName[1])
    /\ ~isDirty(state)

\* C29: immediately after loadPhoto, discardChanges or markSaved returns,
\* isDirty() is false, whatever edits (scalar setters, setTargetOverride with a
\* numeric bearing and distance, setTargetOverrideHeight,
\* clearTargetOverrideEdit, setTargetHidden) came before.
C29_CleanAfterLoadDiscardSave ==
    last.op \in {"loadPhoto", "discardChanges", "markSaved"} => ~isDirty(state)

\* markSaved returned on a state that was dirty, with a raised override kept
\* as the new original
C29_SavedRaisedOverride ==
    /\ last.op = "markSaved"
    /\ last.dirty
    /\ MapHas(state.originalTargetOverrides, TargetName[1])
    /\ state.originalTargetOverrides[TargetName[1]].height \in OverrideHeights
    /\ ~isDirty(state)

(***************************************************************************)
(* api.js, app.js handleSave / navigateToPhoto and the routes they reach.  *)
(* The client's degrees are the server model's hundredths of a degree;     *)
(* centimetres and hundredths of a scale are the same number on both       *)
(* sides.                                                                  *)
(***************************************************************************)
Hundredths(v) == IF v = NullNum THEN NullNum ELSE v * 100
Degrees(v) == IF v = NullNum THEN NullNum ELSE RDiv(v, 100)

\* api.js: the request each save function sends
saveCalibration(photoId, meshRotationY) ==
    [api |-> "calibration", uuid |-> photoId, value |-> Number(Hundredths(meshRotationY))]
saveCameraHeight(photoId, cameraHeight) ==
    [api |-> "height", uuid |-> photoId, value |-> Number(cameraHeight)]
saveMeshRotationX(photoId, meshRotationX) ==
    [api |-> "rotation-x", uuid |-> photoId, value |-> Number(Hundredths(meshRotationX))]
saveMeshRotationZ(photoId, meshRotationZ) ==
    [api |-> "rotation-z", uuid |-> photoId, value |-> Number(Hundredths(meshRotationZ))]
saveDistanceScale(photoId, distanceScale) ==
    [api |-> "distance-scale", uuid |-> photoId, value |-> Number(distanceScale)]
saveMarkerScale(photoId, markerScale) ==
    [api |-> "marker-scale", uuid |-> photoId, value |-> Number(markerScale)]

\* saveTargetOverride(sourceId, targetId, bearing, distance): the body carries
\* override_bearing and override_distance
saveTargetOverride(sourceId, targetId, bearing, distance) ==
    [api |-> "override", sourceId |-> sourceId, targetId |-> targetId,
     override_bearing |-> Hundredths(bearing), override_distance |-> distance]

\* api.js clearTargetOverride(sourceId, targetId)
clearTargetOverride(sourceId, targetId) ==
    [api |-> "clear-override", sourceId |-> sourceId, targetId |-> targetId]

saveTargetVisibility(sourceId, targetId, hidden) ==
    [api |-> "visibility", sourceId |-> sourceId, targetId |-> targetId, hidden |-> hidden]

\* handleSave: the promises pushed for the six scalar values
ScalarRequests(s) ==
    (IF ScalarChanged(s.editedMeshRotationY, s.originalMeshRotationY)
     THEN {saveCalibration(s.currentPhotoId, s.editedMeshRotationY)} ELSE {})
    \cup (IF ScalarChanged(s.editedCameraHeight, s.originalCameraHeight)
          THEN {saveCameraHeight(s.currentPhotoId, s.editedCameraHeight)} ELSE {})
    \cup (IF ScalarChanged(s.editedMeshRotationX, s.originalMeshRotationX)
          THEN {saveMeshRotationX(s.currentPhotoId, s.editedMeshRotationX)} ELSE {})
    \cup (IF ScalarChanged(s.editedMeshRotationZ, s.originalMeshRotationZ)
          THEN {saveMeshRotationZ(s.currentPhotoId, s.editedMeshRotationZ)} ELSE {})
    \cup (IF ScalarChanged(s.editedDistanceScale, s.originalDistanceScale)
          THEN {saveDistanceScale(s.currentPhotoId, s.editedDistanceScale)} ELSE {})
    \cup (IF ScalarChanged(s.editedMarkerScale, s.originalMarkerScale)
          THEN {saveMarkerScale(s.currentPhotoId, s.editedMarkerScale)} ELSE {})

\* handleSave: the promises pushed for the changed overrides; the call passes
\* edited.height ?? 0 as a fifth argument, which saveTargetOverride has no
\* parameter for
OverrideRequests(s) ==
    {IF IsClearedEdit(s.editedTargetOverrides[id])
     THEN clearTargetOverride(s.currentPhotoId, id)
     ELSE saveTargetOverride(s.currentPhotoId, id, s.editedTargetOverrides[id].bearing,
                             s.editedTargetOverrides[id].distance) :
        id \in {k \in DOMAIN s.editedTargetOverrides : OverrideChanged(s, k)}}

\* handleSave: the promises pushed for the changed hidden flags
VisibilityRequests(s) ==
    {saveTargetVisibility(s.currentPhotoId, id, TRUE) :
        id \in s.editedTargetHidden \ s.originalTargetHidden}
    \cup {saveTargetVisibility(s.currentPhotoId, id, FALSE) :
        id \in s.originalTargetHidden \ s.editedTargetHidden}

\* handleSave: promises
SaveRequests(s) == ScalarRequests(s) \cup OverrideRequests(s) \cup VisibilityRequests(s)

\* PUT /api/v1/photos/:uuid/height
putCameraHeight(d, uuid, camera_height) ==
    putPhotoField(d, uuid, camera_height, "camera_height", 10, 2000)

\* getTargetsBySourceId(sourceId)
getTargetsBySourceId(d, sourceId) == {r \in d.targets : r.source_id = sourceId}

\* updateTargetOverride(sourceId, targetId, overrideBearing, overrideDistance,
\* overrideHeight = null)
updateTargetOverride(d, sourceId, targetId, overrideBearing, overrideDistance, overrideHeight) ==
    [d EXCEPT !.targets =
        {IF r.source_id = sourceId /\ r.target_id = targetId
         THEN [r EXCEPT !.override_bearing = overrideBearing,
                        !.override_distance = overrideDistance,
                        !.override_height = overrideHeight]
         ELSE r : r \in d.targets}]

\* updateTargetVisibility(sourceId, targetId, hidden): hidden ? 1 : 0
updateTargetVisibility(d, sourceId, targetId, hidden) ==
    [d EXCEPT !.targets =
        {IF r.source_id = sourceId /\ r.target_id = targetId
         THEN [r EXCEPT !.hidden = IF hidden THEN 1 ELSE 0]
         ELSE r : r \in d.targets}]

\* PUT /api/v1/targets/:sourceId/:targetId/override: the body's
\* override_bearing and override_distance are read, the row is written by
\* updateTargetOverride(sourceId, targetId, bearing, distance)
putTargetOverride(d, sourceId, targetId, override_bearing, override_distance) ==
    IF override_bearing /= NullNum /\ (override_bearing < 0 \/ override_bearing > 36000)
    THEN [status |-> 400, db |-> d]
    ELSE IF override_distance /= NullNum /\ (override_distance < 50 \/ override_distance > 50000)
    THEN [status |-> 400, db |-> d]
    ELSE IF getPhotoById(d, sourceId) = NullObj THEN [status |-> 404, db |-> d]
    ELSE IF TargetsOfPair(d, sourceId, targetId) = {} THEN [status |-> 404, db |-> d]
    ELSE [status |-> 200,
          db |-> updateTargetOverride(d, sourceId, targetId, override_bearing,
                                      override_distance, NullNum)]

\* DELETE /api/v1/targets/:sourceId/:targetId/override
deleteTargetOverride(d, sourceId, targetId) ==
    IF TargetsOfPair(d, sourceId, targetId) = {} THEN [status |-> 404, db |-> d]
    ELSE [status |-> 200,
          db |-> updateTargetOverride(d, sourceId, targetId, NullNum, NullNum, NullNum)]

\* PUT /api/v1/targets/:sourceId/:targetId/visibility
putTargetVisibility(d, sourceId, targetId, hidden) ==
    IF getPhotoById(d, sourceId) = NullObj THEN [status |-> 404, db |-> d]
    ELSE IF TargetsOfPair(d, sourceId, targetId) = {} THEN [status |-> 404, db |-> d]
    ELSE [status |-> 200, db |-> updateTargetVisibility(d, sourceId, targetId, hidden)]

\* the server handles one request
serve(d, request) ==
    CASE request.api = "calibration" -> putCalibration(d, request.uuid, request.value)
      [] request.api = "height" -> putCameraHeight(d, request.uuid, request.value)
      [] request.api = "rotation-x" -> putRotationX(d, request.uuid, request.value)
      [] request.api = "rotation-z" -> putRotationZ(d, request.uuid, request.value)
      [] request.api = "distance-scale" -> putDistanceScale(d, request.uuid, request.value)
      [] request.api = "marker-scale" -> putMarkerScale(d, request.uuid, request.value)
      [] request.api = "override" ->
            putTargetOverride(d, request.sourceId, request.targetId,
                              request.override_bearing, request.override_distance)
      [] request.api = "clear-override" ->
            deleteTargetOverride(d, request.sourceId, request.targetId)
      [] request.api = "visibility" ->
            putTargetVisibility(d, request.sourceId, request.targetId, request.hidden)

\* targetsBySourceId: ORDER BY is_next DESC, distance_m ASC
RECURSIVE OrderedTargets(_)
OrderedTargets(rows) ==
    IF rows = {} THEN <<>>
    ELSE LET first == CHOOSE r \in rows : \A q \in rows :
                         \/ r.is_next > q.is_next
                         \/ r.is_next = q.is_next /\ r.distance_m <= q.distance_m
         IN  <<first>> \o OrderedTargets(rows \ {first})

\* a target of GET /api/v1/photos/:uuid?include_hidden=true
MetadataTarget(d, r) ==
    [id |-> r.target_id, lon |-> d.photos[r.target_id].lon, lat |-> d.photos[r.target_id].lat,
     override_bearing |-> Degrees(r.override_bearing),
     override_distance |-> r.override_distance,
     override_height |-> r.override_height,
     hidden |-> r.hidden = 1]

\* fetchPhotoMetadata(photoId): the answer of GET /api/v1/photos/:uuid
fetchPhotoMetadata(d, photoId) ==
    [camera |-> [mesh_rotation_y |-> Degrees(d.photos[photoId].mesh_rotation_y),
                 height |-> d.photos[photoId].camera_height,
                 mesh_rotation_x |-> Degrees(d.photos[photoId].mesh_rotation_x),
                 mesh_rotation_z |-> Degrees(d.photos[photoId].mesh_rotation_z),
                 distance_scale |-> d.photos[photoId].distance_scale,
                 marker_scale |-> d.photos[photoId].marker_scale],
     targets |-> [k \in 1..Cardinality(getTargetsBySourceId(d, photoId)) |->
                     MetadataTarget(d, OrderedTargets(getTargetsBySourceId(d, photoId))[k])]]

\* the photos the operator opens
SessionPhotoIds == {"p1", "p2"}

\* the buttons of the unsaved-changes dialog
DialogChoices == {"save", "discard", "cancel"}

\* last holds the position of handleSave and navigateToPhoto: the requests
\* in flight, whether Promise.all is still awaited, whether one of its
\* promises has rejected, and the photo navigateToPhoto goes to afterwards
Idle ==
    [op |-> "idle", saving |-> FALSE, requests |-> {}, failed |-> FALSE, navigateTo |-> NULL,
     sent |-> NullObj, ok |-> FALSE, late |-> FALSE, dirty |-> FALSE, choice |-> NULL]

InitSession ==
    /\ state = NewState
    /\ nav = NullObj
    /\ projector = NullObj
    /\ hitTester = NullObj
    /\ navRenderer = NullObj
    /\ last = Idle
    /\ pending = 0
    /\ viewer = InitViewer
    /\ db = SeedDb

\* the targets listed in the panel
PanelTargets == {r.target_id : r \in getTargetsBySourceId(db, state.currentPhotoId)}

\* an edit made in the panel, at any time after the first photo is loaded
PanelEdit(s) ==
    /\ state.currentPhotoId /= NULL
    /\ pending < MaxEdits
    /\ pending' = pending + 1
    /\ state' = s
    /\ last' = [last EXCEPT !.op = "edit"]
    /\ UNCHANGED <<nav, projector, hitTester, navRenderer, viewer, db>>

PanelRotationY == \E value \in RotationValues : PanelEdit(setMeshRotationY(state, value))

PanelOverride ==
    \E targetId \in PanelTargets, o \in PanelOverrides :
        PanelEdit(setTargetOverride(state, targetId, o.bearing, o.distance, o.height))

PanelOverrideHeight ==
    \E targetId \in PanelTargets, height \in OverrideHeights :
        PanelEdit(setTargetOverrideHeight(state, targetId, height))

PanelClearOverride ==
    \E targetId \in PanelTargets : PanelEdit(clearTargetOverrideEdit(state, targetId))

PanelHidden ==
    \E targetId \in PanelTargets, hidden \in BOOLEAN :
        PanelEdit(setTargetHidden(state, targetId, hidden))

\* handleSave(), up to await Promise.all(promises)
HandleSave ==
    /\ state.currentPhotoId /= NULL
    /\ ~last.saving
    /\ last.requests = {}
    /\ last' = IF SaveRequests(state) = {}
               THEN [Idle EXCEPT !.op = "handleSave", !.dirty = isDirty(state)]
               ELSE [Idle EXCEPT !.op = "saving", !.saving = TRUE, !.sent = state,
                                 !.requests = SaveRequests(state), !.dirty = isDirty(state)]
    /\ UNCHANGED <<state, nav, projector, hitTester, navRenderer, viewer, db, pending>>

\* navigateToPhoto(photoId), up to its first await that waits on the network:
\* straight to startCalibration when nothing is dirty, else by the dialog's
\* answer
NavigateToPhoto ==
    \E photoId \in SessionPhotoIds, choice \in DialogChoices :
        /\ ~last.saving
        /\ last.requests = {}
        /\ state' = IF ~isDirty(state)
                    THEN loadPhotoMetadata(state, photoId, fetchPhotoMetadata(db, photoId))
                    ELSE IF choice = "discard"
                    THEN loadPhotoMetadata(discardChanges(state), photoId,
                                           fetchPhotoMetadata(db, photoId))
                    ELSE state
        /\ last' = IF ~isDirty(state)
                   THEN [Idle EXCEPT !.op = "startCalibration"]
                   ELSE IF choice = "discard"
                   THEN [Idle EXCEPT !.op = "startCalibration", !.dirty = TRUE,
                                     !.choice = choice]
                   ELSE IF choice = "cancel"
                   THEN [Idle EXCEPT !.op = "cancel", !.dirty = TRUE, !.choice = choice]
                   ELSE [Idle EXCEPT !.op = "saving", !.saving = TRUE, !.sent = state,
                                     !.requests = SaveRequests(state), !.dirty = TRUE,
                                     !.choice = choice, !.navigateTo = photoId]
        /\ UNCHANGED <<nav, projector, hitTester, navRenderer, viewer, db, pending>>

\* one request reaches the server and is answered, or is lost on the way
\* (fetch rejects); a status other than 200 makes the api function throw
ServeRequest ==
    \E request \in last.requests, delivered \in BOOLEAN :
        /\ db' = IF delivered THEN serve(db, request).db ELSE db
        /\ last' = [last EXCEPT !.requests = @ \ {request},
                                !.failed = @ \/ (last.saving /\
                                    (~delivered \/ serve(db, request).status /= 200))]
        /\ UNCHANGED <<state, nav, projector, hitTester, navRenderer, viewer, pending>>

\* Promise.all settles: markSaved() when every promise resolved, the catch
\* block when one rejected; then handleSave returns and navigateToPhoto, if
\* it was waiting, calls startCalibration
SaveSettled ==
    /\ last.saving
    /\ last.failed \/ last.requests = {}
    /\ state' = IF last.navigateTo = NULL
                THEN (IF last.failed THEN state ELSE markSaved(state))
                ELSE loadPhotoMetadata(IF last.failed THEN state ELSE markSaved(state),
                                       last.navigateTo, fetchPhotoMetadata(db, last.navigateTo))
    /\ last' = [last EXCEPT !.op = IF last.navigateTo = NULL THEN "handleSave"
                                   ELSE "startCalibration",
                            !.saving = FALSE, !.failed = FALSE, !.navigateTo = NULL,
                            !.sent = NullObj, !.ok = ~last.failed,
                            !.late = state /= last.sent]
    /\ UNCHANGED <<nav, projector, hitTester, navRenderer, viewer, db, pending>>

NextSession ==
    \/ PanelRotationY
    \/ PanelOverride
    \/ PanelOverrideHeight
    \/ PanelClearOverride
    \/ PanelHidden
    \/ HandleSave
    \/ NavigateToPhoto
    \/ ServeRequest
    \/ SaveSettled

SpecSession == InitSession /\ [][NextSession]_vars

\* C26: navigation never drops unsaved edits without a successful save or an
\* explicit discard: when navigateToPhoto finds isDirty() true and the
\* operator chooses 'save', startCalibration for the new photo runs only if
\* every save request succeeded.
C26_NavigatesOnlyAfterSave ==
    (last.op = "startCalibration" /\ last.choice = "save") => last.ok

\* 'save' was chosen on a dirty state, a save request failed, and
\* startCalibration has loaded the new photo all the same: nothing is dirty
\* any more
C26_FailedSaveStillNavigates ==
    /\ last.op = "startCalibration"
    /\ last.choice = "save"
    /\ last.dirty
    /\ ~last.ok
    /\ ~isDirty(state)

\* C27: handleSave marks as saved only what it sent: after a handleSave
\* during whose requests an edit was made, that edit is still unsaved,
\* isDirty() is true.
C27_LateEditStaysDirty ==
    (last.op = "handleSave" /\ last.ok /\ last.late) => isDirty(state)

\* the rotation was changed while the save was in flight: handleSave has
\* succeeded, isDirty() is false, and the server holds another rotation than
\* the one the client now calls saved
C27_LateEditMarkedSaved ==
    /\ last.op = "handleSave"
    /\ last.ok
    /\ last.late
    /\ last.requests = {}
    /\ ~isDirty(state)
    /\ db.photos[state.currentPhotoId].mesh_rotation_y /= Hundredths(state.originalMeshRotationY)

\* C30: an edited override height survives a save: after handleSave has
\* succeeded (no edit made meanwhile), every override the client holds as
\* saved is stored by the server with the same height, so that a reload
\* yields the same effective override.
C30_SavedHeightStored ==
    (last.op = "handleSave" /\ last.ok /\ ~last.late) =>
        \A id \in DOMAIN state.originalTargetOverrides :
            \A r \in TargetsOfPair(db, state.currentPhotoId, id) :
                Coalesce(r.override_height, 0) =
                    Coalesce(state.originalTargetOverrides[id].height, 0)

\* an override with a raised height was saved with success: the server's
\* row has its bearing and distance, and no height
C30_HeightNotStored ==
    /\ last.op = "handleSave"
    /\ last.ok
    /\ ~last.late
    /\ \E id \in DOMAIN state.originalTargetOverrides :
          /\ state.originalTargetOverrides[id].height \in OverrideHeights
          /\ getTargetByPair(db, state.currentPhotoId, id).override_bearing =
                 Hundredths(state.originalTargetOverrides[id].bearing)
          /\ getTargetByPair(db, state.currentPhotoId, id).override_distance =
                 state.originalTargetOverrides[id].distance
          /\ getTargetByPair(db, state.currentPhotoId, id).override_height = NullNum

(***************************************************************************)
(* app.js startCalibration, call by call: each call waits for the photo's  *)
(* metadata, then for the panorama, then for the nearby photos, and        *)
(* several calls may be waiting at once                                    *)
(***************************************************************************)
\* the most calls of startCalibration in one run
MaxLoads == 3

LoadPhotoIds == {"p1", "p2"}

\* what GET /photos/:uuid answers for each photo
LoadMetadata(photoId) ==
    IF photoId = "p1"
    THEN [camera |-> Camera, targets |-> TargetList(NumTargets, FALSE)]
    ELSE [camera |-> [Camera EXCEPT !.heading = 90], targets |-> TargetList(1, TRUE)]

\* what GET /photos/:uuid/nearby answers for each photo
LoadNearby(photoId) == IF photoId = "p1" THEN <<Nearby(1)>> ELSE <<>>

InitLoads ==
    /\ state = NewState
    /\ nav = [overlayCanvas |-> FALSE, cameraConfig |-> NullObj, targets |-> <<>>,
              nearbyPhotos |-> <<>>, nearbyPreviewEnabled |-> FALSE,
              onNearbyClickCallback |-> NULL, nearestTargetId |-> NULL,
              cursorNearestTargetId |-> NULL, mouseX |-> 0, mouseY |-> 0,
              hoveredId |-> NULL, currentYaw |-> 0, currentPitch |-> 0, currentFov |-> 75,
              onTargetSelectCallback |-> FALSE, onSetFromClickCallback |-> FALSE]
    /\ projector = NullObj
    /\ hitTester = NullObj
    /\ navRenderer = NullObj
    /\ last = [op |-> "idle", loads |-> <<>>]
    /\ pending = 0
    /\ viewer = InitViewer
    /\ db = SeedDb

\* some earlier call has not finished
Unfinished(loads) == \E i \in 1..Len(loads) : loads[i].at /= "done"

\* startCalibration(photoId), up to await fetchPhotoMetadata(photoId)
StartLoad ==
    \E photoId \in LoadPhotoIds :
        /\ Len(last.loads) < MaxLoads
        /\ last' = [op |-> "startCalibration",
                    loads |-> Append(last.loads, [photoId |-> photoId, at |-> "metadata",
                                                  overlapped |-> Unfinished(last.loads)])]
        /\ UNCHANGED <<state, nav, projector, hitTester, navRenderer, pending, viewer, db>>

\* the metadata of call i arrives: loadPhoto, initializeSubsystems (once),
\* setCameraConfig, setTargets, up to await loadProgressive
MetadataArrives ==
    \E i \in 1..Len(last.loads) :
        LET photoId == last.loads[i].photoId
            s == loadPhotoMetadata(state, photoId, LoadMetadata(photoId))
            initialized == nav.overlayCanvas
            p == [(IF initialized THEN projector ELSE NewProjector)
                     EXCEPT !.cameraConfig = LoadMetadata(photoId).camera]
            n == setCameraConfig(IF initialized THEN nav ELSE initNavigator(nav),
                                 LoadMetadata(photoId).camera)
        IN  /\ last.loads[i].at = "metadata"
            /\ state' = s
            /\ projector' = p
            /\ hitTester' = IF initialized THEN hitTester ELSE NewHitTester
            /\ navRenderer' = IF initialized THEN navRenderer ELSE NewRenderer
            /\ nav' = setTargets(n, s, p, LoadMetadata(photoId).targets)
            /\ last' = [op |-> "loadPhoto", loads |-> [last.loads EXCEPT ![i].at = "panorama"]]
            /\ UNCHANGED <<pending, viewer, db>>

\* loadProgressive of call i returns (it resolves whether or not the images
\* loaded): the nearby photos are requested
PanoramaLoaded ==
    \E i \in 1..Len(last.loads) :
        /\ last.loads[i].at = "panorama"
        /\ last' = [op |-> "loadProgressive", loads |-> [last.loads EXCEPT ![i].at = "nearby"]]
        /\ UNCHANGED <<state, nav, projector, hitTester, navRenderer, pending, viewer, db>>

\* the nearby photos of call i arrive: navSetNearbyPhotos(photos)
NearbyArrives ==
    \E i \in 1..Len(last.loads) :
        /\ last.loads[i].at = "nearby"
        /\ nav' = [nav EXCEPT !.nearbyPhotos = LoadNearby(last.loads[i].photoId)]
        /\ last' = [op |-> "setNearbyPhotos", loads |-> [last.loads EXCEPT ![i].at = "done"]]
        /\ UNCHANGED <<state, projector, hitTester, navRenderer, pending, viewer, db>>

NextLoads ==
    \/ StartLoad
    \/ MetadataArrives
    \/ PanoramaLoaded
    \/ NearbyArrives

SpecLoads == InitLoads /\ [][NextLoads]_vars

\* the last call was started while an earlier one was waiting, and every
\* request of every call has settled
OverlappedAndSettled ==
    /\ Len(last.loads) >= 2
    /\ last.loads[Len(last.loads)].overlapped
    /\ ~Unfinished(last.loads)

\* the photo of the last call
Requested == last.loads[Len(last.loads)].photoId

\* C28: photo loads do not cross: when startCalibration(B) is started before
\* the requests of startCalibration(A) complete, then once all requests have
\* settled state.currentPhotoId, the navigator's camera config and targets
\* and the nearby-photo list all belong to B, the last photo requested.
C28_LastRequestedWins ==
    OverlappedAndSettled =>
        /\ state.currentPhotoId = Requested
        /\ nav.cameraConfig = LoadMetadata(Requested).camera
        /\ nav.targets = LoadMetadata(Requested).targets
        /\ nav.nearbyPhotos = LoadNearby(Requested)

\* p2 was requested while p1 was loading, all requests have settled, and the
\* state and the navigator hold p1, whose metadata arrived last
C28_EarlierPhotoWins ==
    /\ OverlappedAndSettled
    /\ Requested = "p2"
    /\ state.currentPhotoId = "p1"
    /\ nav.cameraConfig = LoadMetadata("p1").camera
    /\ nav.targets = LoadMetadata("p1").targets

====
